---------------------------- MODULE Spec2Model ----------------------------
(***************************************************************************)
(* The cross-process hash table of rwlock_optimized_status.{h,cpp}: an     *)
(* open-addressed table with tombstones and rehash-in-place that lives in  *)
(* a POSIX shared-memory segment and is guarded by a process-shared        *)
(* pthread_rwlock.                                                         *)
(*                                                                         *)
(* Scaling.  The table has RWLOCK_HASH_TABLE_SIZE = 2048 slots and values  *)
(* of up to MAX_VALUE_LEN = 256 bytes in the source.  The model keeps the  *)
(* code and shrinks these two numbers (4 slots, 2 bytes); every other      *)
(* quantity (mask, load ceiling, RWLOCK_MAX_ENTRIES) is derived from them  *)
(* the way the source derives it.                                          *)
(***************************************************************************)
EXTENDS Integers, Sequences, FiniteSets, TLC

(***************************************************************************)
(* Program constants                                                       *)
(***************************************************************************)
\* write.cpp:251 (2048 in the source, a power of two; scaled)
RWLOCK_HASH_TABLE_SIZE == 4
\* write.cpp:252  RWLOCK_MAX_LOAD_FACTOR = 0.75, kept as the fraction 3/4
LOAD_NUM == 3
LOAD_DEN == 4
\* write.cpp:253  static_cast<int>(RWLOCK_HASH_TABLE_SIZE * RWLOCK_MAX_LOAD_FACTOR)
RWLOCK_MAX_ENTRIES == (RWLOCK_HASH_TABLE_SIZE * LOAD_NUM) \div LOAD_DEN
\* shared_constants.h:11 (256 in the source; scaled)
MAX_VALUE_LEN == 2

\* shared_constants.h:6-9
OK == 0
NOT_FOUND == -1
NO_SPACE_ERR == -2
DUPLICATE_KEY == -3

\* write.cpp:256-260  enum RWLockEntryState
RWLOCK_EMPTY == 0
RWLOCK_OCCUPIED == 1
RWLOCK_DELETED == 2

(***************************************************************************)
(* uint32_t arithmetic.  A 32-bit word is the pair <<high half, low half>> *)
(* of 16-bit numbers, so that no intermediate value leaves the range of    *)
(* the model checker's integers.                                           *)
(***************************************************************************)
RECURSIVE Xor16(_, _, _)
Xor16(a, b, n) ==
    IF n = 0 THEN 0
    ELSE ((a + b) % 2) + 2 * Xor16(a \div 2, b \div 2, n - 1)

Xor32(a, b) == <<Xor16(a[1], b[1], 16), Xor16(a[2], b[2], 16)>>

\* k >> n for 1 <= n <= 16
Pow2(n) == 2 ^ n
Shr32(a, n) ==
    IF n = 16 THEN <<0, a[1]>>
    ELSE LET v == a[1] * Pow2(16 - n) + (a[2] \div Pow2(n))
         IN  <<v \div 65536, v % 65536>>

\* (x * y) mod 2^16 for 16-bit x, y
MulLo16(x, y) == ((x % 256) * y + (((x \div 256) * y) % 256) * 256) % 65536

\* (a * b) mod 2^32
Mul32(a, b) ==
    LET p0  == (a[2] % 256) * b[2]
        p1  == (a[2] \div 256) * b[2]
        sum == p0 + (p1 % 256) * 256
        lo  == sum % 65536
        cy  == (sum \div 65536) + (p1 \div 256)
        hi  == (cy + MulLo16(a[1], b[2]) + MulLo16(a[2], b[1])) % 65536
    IN  <<hi, lo>>

\* (a + b) mod 2^32
Add32(a, b) ==
    LET lo == a[2] + b[2]
    IN  <<(a[1] + b[1] + (lo \div 65536)) % 65536, lo % 65536>>

\* static_cast<uint32_t>(key) for an int key in -65536 .. 2^31-1
ToU32(key) ==
    IF key >= 0 THEN <<key \div 65536, key % 65536>>
    ELSE <<65535, 65536 + key>>

\* k & (RWLOCK_HASH_TABLE_SIZE - 1): the table size is a power of two
MaskSize(a) == a[2] % RWLOCK_HASH_TABLE_SIZE


(***************************************************************************)
(* Model domains                                                           *)
(***************************************************************************)
\* The value of std::random_device the creator draws, as a 32-bit word.
Seeds == {<<0, 1>>}
\* The keys the operations are called with.  Under the seed above keys 0
\* and 2 share the whole probe walk (first slot 3, step 3), and keys 1 and 6
\* share the first slot only (slot 0, steps 1 and 3).
Keys == {0, 1, 2, 6}
\* Bytes of a value: 0 is NUL, 1 is any other character.
\* The argument values (std::string, which may hold NUL bytes anywhere):
\* empty, one character, a lone NUL, and one that is too long.
Values == {<<>>, <<1>>, <<0>>, <<1, 1>>}

(***************************************************************************)
(* Hash primitives (write.cpp:329-353)                                     *)
(***************************************************************************)
\* k ^= k >> n
ShiftXor(k, n) == Xor32(k, Shr32(k, n))

\* k *= c; k ^= k >> n
MulShiftXor(k, c, n) == ShiftXor(Mul32(k, c), n)

\* A faulty second hash, to show what the probe walk depends on: the
\* masked value is used as it is, even or odd.
OddMask_KeepsEven(k) == MaskSize(k)

\* k | 1, masked to the table size
OddMask(k) == IF MaskSize(k) % 2 = 1 THEN MaskSize(k) ELSE MaskSize(k) + 1

hashOf(seed, key) ==
    MaskSize(
        MulShiftXor(                                      \* 0xc2b2ae35, 16
            MulShiftXor(                                  \* 0x85ebca6b, 13
                ShiftXor(Xor32(ToU32(key), seed), 16),
                <<34283, 51819>>, 13),
            <<49842, 44597>>, 16))

hash2Of(seed, key) ==
    OddMask(
        MulShiftXor(                                      \* 0x735a2d97, 15
            MulShiftXor(                                  \* 0x21f0aaad, 15
                ShiftXor(Xor32(ToU32(key),
                               Add32(seed, <<40503, 31161>>)),  \* 0x9e3779b9
                         16),
                <<8688, 43693>>, 15),
            <<29530, 11671>>, 15))

\* The two hashes of every (seed, key) of the model, computed once.
HashTab == [s \in Seeds |-> [k \in Keys |-> hashOf(s, k)]]
Hash2Tab == [s \in Seeds |-> [k \in Keys |-> hash2Of(s, k)]]

hash(sd, key) == HashTab[sd.hash_seed][key]
hash2(sd, key) == Hash2Tab[sd.hash_seed][key]

\* (current_pos + step * hash2_val) & (RWLOCK_HASH_TABLE_SIZE - 1)
getNextProbe(current_pos, step, hash2_val) ==
    (current_pos + step * hash2_val) % RWLOCK_HASH_TABLE_SIZE

(***************************************************************************)
(* Values: char value[MAX_VALUE_LEN] and std::string                       *)
(***************************************************************************)
\* The bytes of s before its first NUL: what c_str() shows to strncpy and
\* what std::string(const char *) reads back from a buffer.
RECURSIVE CStrFrom(_, _)
CStrFrom(s, i) ==
    IF i > Len(s) \/ s[i] = 0 THEN <<>>
    ELSE <<s[i]>> \o CStrFrom(s, i + 1)

CStr(s) == CStrFrom(s, 1)

\* strncpy(entry.value, v.c_str(), MAX_VALUE_LEN - 1);
\* entry.value[MAX_VALUE_LEN - 1] = '\0';
StoreValue(v) ==
    LET c == CStr(v)
    IN  [i \in 1..MAX_VALUE_LEN |->
            IF i <= Len(c) /\ i <= MAX_VALUE_LEN - 1 THEN c[i] ELSE 0]

(***************************************************************************)
(* The slot table.  Slots are indexed 0 .. RWLOCK_HASH_TABLE_SIZE-1.       *)
(***************************************************************************)
Slots == 0..(RWLOCK_HASH_TABLE_SIZE - 1)

\* The slot as the creator leaves it (rwlock_optimized_status.cpp:93-98) on
\* zero-filled memory.
EmptyEntry ==
    [key |-> 0, value |-> [i \in 1..MAX_VALUE_LEN |-> 0],
     state |-> RWLOCK_EMPTY, hash_value |-> 0]

(***************************************************************************)
(* Probe engine                                                            *)
(***************************************************************************)
\* A faulty search, to show what the round trip of add and get depends on:
\* it gives up at a tombstone as it does at an empty slot.
RECURSIVE findEntryLoop_StopsAtTombstone(_, _, _, _, _)
findEntryLoop_StopsAtTombstone(ht, key, hash2_val, pos, step) ==
    IF step >= RWLOCK_HASH_TABLE_SIZE THEN -1
    ELSE IF ht[pos].state # RWLOCK_OCCUPIED THEN -1
    ELSE IF ht[pos].key = key THEN pos
    ELSE findEntryLoop_StopsAtTombstone(
            ht, key, hash2_val,
            getNextProbe(pos, step + 1, hash2_val), step + 1)

\* A faulty search, to show what contains depends on: it matches the key of
\* a slot whatever the slot's state, a tombstone included.
RECURSIVE findEntryLoop_MatchesTombstone(_, _, _, _, _)
findEntryLoop_MatchesTombstone(ht, key, hash2_val, pos, step) ==
    IF step >= RWLOCK_HASH_TABLE_SIZE THEN -1
    ELSE IF ht[pos].state = RWLOCK_EMPTY THEN -1
    ELSE IF ht[pos].key = key THEN pos
    ELSE findEntryLoop_MatchesTombstone(
            ht, key, hash2_val,
            getNextProbe(pos, step + 1, hash2_val), step + 1)

\* findEntry, lines 119-138
RECURSIVE findEntryLoop(_, _, _, _, _)
findEntryLoop(ht, key, hash2_val, pos, step) ==
    IF step >= RWLOCK_HASH_TABLE_SIZE THEN -1
    ELSE IF ht[pos].state = RWLOCK_EMPTY THEN -1
    ELSE IF ht[pos].state = RWLOCK_OCCUPIED /\ ht[pos].key = key THEN pos
    ELSE findEntryLoop(ht, key, hash2_val,
                       getNextProbe(pos, step + 1, hash2_val), step + 1)

findEntry(sd, key, hash_val) ==
    findEntryLoop(sd.hash_table, key, hash2(sd, key), hash_val, 0)

\* A faulty slot search, to show what the reuse of tombstones depends on:
\* at the first Empty slot it returns that slot, whatever tombstone it
\* passed on the way.
RECURSIVE findEmptySlotLoop_PrefersEmpty(_, _, _, _, _, _)
findEmptySlotLoop_PrefersEmpty(ht, key, hash2_val, pos, step, first_deleted) ==
    IF step >= RWLOCK_HASH_TABLE_SIZE THEN first_deleted
    ELSE IF ht[pos].state = RWLOCK_EMPTY THEN pos
    ELSE IF ht[pos].state = RWLOCK_OCCUPIED /\ ht[pos].key = key THEN -1
    ELSE findEmptySlotLoop_PrefersEmpty(
             ht, key, hash2_val, getNextProbe(pos, step + 1, hash2_val),
             step + 1,
             IF ht[pos].state = RWLOCK_DELETED /\ first_deleted = -1
             THEN pos ELSE first_deleted)

RECURSIVE findEmptySlotLoop(_, _, _, _, _, _)
findEmptySlotLoop(ht, key, hash2_val, pos, step, first_deleted) ==
    IF step >= RWLOCK_HASH_TABLE_SIZE THEN first_deleted
    ELSE IF ht[pos].state = RWLOCK_EMPTY
         THEN (IF first_deleted # -1 THEN first_deleted ELSE pos)
    ELSE LET fd == IF ht[pos].state = RWLOCK_DELETED /\ first_deleted = -1
                   THEN pos ELSE first_deleted
         IN  IF ht[pos].state = RWLOCK_OCCUPIED /\ ht[pos].key = key THEN -1
             ELSE findEmptySlotLoop(ht, key, hash2_val,
                                    getNextProbe(pos, step + 1, hash2_val),
                                    step + 1, fd)

findEmptySlot(sd, key, hash_val) ==
    findEmptySlotLoop(sd.hash_table, key, hash2(sd, key), hash_val, 0, -1)


(***************************************************************************)
(* Rehash-in-place (rwlock_optimized_status.cpp:166-207)                   *)
(***************************************************************************)
needRehash(sd) ==
    (sd.current_count + sd.deleted_count) > RWLOCK_MAX_ENTRIES

\* The entry an insert writes: key, value, state and hash_value.
OccupiedEntry(key, value, hash_val) ==
    [key |-> key, value |-> StoreValue(value),
     state |-> RWLOCK_OCCUPIED, hash_value |-> hash_val]

\* A faulty snapshot, to show what the rehash's content depends on: it
\* collects the tombstones along with the live entries.
TempData_WithDeleted(ht) ==
    LET occ == {i \in Slots : ht[i].state # RWLOCK_EMPTY}
        ks  == {ht[i].key : i \in occ}
        lastOf(k) == CHOOSE i \in occ :
                        /\ ht[i].key = k
                        /\ \A j \in occ : ht[j].key = k => j <= i
    IN  [k \in ks |-> CStr(ht[lastOf(k)].value)]

\* std::map<int, std::string> temp_data, filled in slot order: a later slot
\* with the same key overwrites an earlier one.
TempData(ht) ==
    LET occ == {i \in Slots : ht[i].state = RWLOCK_OCCUPIED}
        ks  == {ht[i].key : i \in occ}
        \* the last slot holding key k
        lastOf(k) == CHOOSE i \in occ :
                        /\ ht[i].key = k
                        /\ \A j \in occ : ht[j].key = k => j <= i
    IN  [k \in ks |-> CStr(ht[lastOf(k)].value)]

SetMin(S) == CHOOSE x \in S : \A y \in S : x <= y

\* for (const auto &pair : temp_data): in ascending key order
RECURSIVE rehashLoop(_, _, _)
rehashLoop(sd, temp_data, todo) ==
    IF todo = {} THEN [ret |-> OK, sd |-> sd]
    ELSE LET k        == SetMin(todo)
             hash_val == hash(sd, k)
             pos      == findEmptySlot(sd, k, hash_val)
         IN  IF pos = -1 THEN [ret |-> NO_SPACE_ERR, sd |-> sd]
             ELSE rehashLoop(
                    [sd EXCEPT !.hash_table[pos] =
                                   OccupiedEntry(k, temp_data[k], hash_val),
                               !.current_count = @ + 1],
                    temp_data, todo \ {k})

\* A faulty rehash, to show what reclaiming tombstones depends on: it zeroes
\* the counters but leaves the slot states as they are before re-inserting.
rehashIfNeeded_KeepsStates(sd) ==
    IF ~needRehash(sd) THEN [ret |-> OK, sd |-> sd]
    ELSE rehashLoop([sd EXCEPT !.current_count = 0, !.deleted_count = 0],
                    TempData(sd.hash_table),
                    DOMAIN TempData(sd.hash_table))

\* A faulty rehash, to show what a failed add depends on: the first entry of
\* the snapshot is not put back.
rehashIfNeeded_LosesEntry(sd) ==
    IF ~needRehash(sd) THEN [ret |-> OK, sd |-> sd]
    ELSE LET temp_data == TempData(sd.hash_table)
             cleared   ==
                 [sd EXCEPT !.hash_table =
                                [i \in Slots |->
                                    [sd.hash_table[i] EXCEPT !.state = RWLOCK_EMPTY]],
                            !.current_count = 0,
                            !.deleted_count = 0]
         IN  rehashLoop(cleared, temp_data,
                        DOMAIN temp_data \ {SetMin(DOMAIN temp_data)})

rehashIfNeeded(sd) ==
    IF ~needRehash(sd) THEN [ret |-> OK, sd |-> sd]
    ELSE LET temp_data == TempData(sd.hash_table)
             cleared   ==
                 [sd EXCEPT !.hash_table =
                                [i \in Slots |->
                                    [sd.hash_table[i] EXCEPT !.state = RWLOCK_EMPTY]],
                            !.current_count = 0,
                            !.deleted_count = 0]
         IN  rehashLoop(cleared, temp_data, DOMAIN temp_data)

(***************************************************************************)
(* The critical sections of the public operations: what each does between  *)
(* taking and releasing the table lock.  Each yields the return value and  *)
(* the shared data it leaves.                                              *)
(***************************************************************************)
\* A faulty length test, to show what the rejection depends on: it lets a
\* value of exactly MAX_VALUE_LEN bytes through.
TooLong_OffByOne(value) == Len(value) > MAX_VALUE_LEN

\* rsc_value.length() >= MAX_VALUE_LEN, tested before the lock is taken
TooLong(value) == Len(value) >= MAX_VALUE_LEN

\* A faulty insert, to show what the counters depend on: it reuses a
\* tombstone without taking it off deleted_count.
InsertAt_KeepsDeletedCount(sd, pos, key, value, hash_val) ==
    [sd EXCEPT !.hash_table[pos] = OccupiedEntry(key, value, hash_val),
               !.current_count = @ + 1]

\* the slot write of an insert, lines 228-238 and 294-304
InsertAt(sd, pos, key, value, hash_val) ==
    LET d == IF sd.hash_table[pos].state = RWLOCK_DELETED THEN 1 ELSE 0
    IN  [sd EXCEPT !.deleted_count = @ - d,
                   !.hash_table[pos] = OccupiedEntry(key, value, hash_val),
                   !.current_count = @ + 1]

\* the value overwrite of update, upsert and batch_update
OverwriteAt(sd, pos, value) ==
    [sd EXCEPT !.hash_table[pos].value = StoreValue(value)]

\* A different add, to show what the answer for an absent key depends on: it
\* tests the live count against the ceiling before it looks for a slot.
addRscLocked_CeilingTest(sd, key, value) ==
    IF sd.current_count >= RWLOCK_MAX_ENTRIES
    THEN [ret |-> NO_SPACE_ERR, sd |-> sd]
    ELSE LET r == rehashIfNeeded(sd)
             hash_val == hash(r.sd, key)
             pos      == findEmptySlot(r.sd, key, hash_val)
         IN  IF pos = -1 THEN [ret |-> DUPLICATE_KEY, sd |-> r.sd]
             ELSE [ret |-> OK,
                   sd |-> InsertAt(r.sd, pos, key, value, hash_val)]

addRscLocked(sd, key, value) ==
    LET r == rehashIfNeeded(sd)
    IN  IF r.ret # OK THEN [ret |-> NO_SPACE_ERR, sd |-> r.sd]
        ELSE LET hash_val == hash(r.sd, key)
                 pos      == findEmptySlot(r.sd, key, hash_val)
             IN  IF pos = -1
                 THEN [ret |-> IF r.sd.current_count >= RWLOCK_MAX_ENTRIES
                               THEN NO_SPACE_ERR ELSE DUPLICATE_KEY,
                       sd |-> r.sd]
                 ELSE [ret |-> OK,
                       sd |-> InsertAt(r.sd, pos, key, value, hash_val)]

\* A faulty update, to show what its frame depends on: a key that is absent
\* is inserted.
updateRscLocked_InsertsAbsent(sd, key, value) ==
    LET pos == findEntry(sd, key, hash(sd, key))
    IN  IF pos = -1 THEN addRscLocked(sd, key, value)
        ELSE [ret |-> OK, sd |-> OverwriteAt(sd, pos, value)]

updateRscLocked(sd, key, value) ==
    LET pos == findEntry(sd, key, hash(sd, key))
    IN  IF pos = -1 THEN [ret |-> NOT_FOUND, sd |-> sd]
        ELSE [ret |-> OK, sd |-> OverwriteAt(sd, pos, value)]

\* A faulty upsert, to show what its round trip depends on: a key that is
\* present keeps its old value.
upsertRscLocked_KeepsOldValue(sd, key, value) ==
    IF findEntry(sd, key, hash(sd, key)) # -1 THEN [ret |-> OK, sd |-> sd]
    ELSE addRscLocked(sd, key, value)

upsertRscLocked(sd, key, value) ==
    LET hash_val == hash(sd, key)
        pos      == findEntry(sd, key, hash_val)
    IN  IF pos # -1 THEN [ret |-> OK, sd |-> OverwriteAt(sd, pos, value)]
        ELSE LET r == rehashIfNeeded(sd)
             IN  IF r.ret # OK THEN [ret |-> NO_SPACE_ERR, sd |-> r.sd]
                 ELSE LET pos2 == findEmptySlot(r.sd, key, hash_val)
                      IN  IF pos2 = -1
                          THEN [ret |-> NO_SPACE_ERR, sd |-> r.sd]
                          ELSE [ret |-> OK,
                                sd |-> InsertAt(r.sd, pos2, key, value, hash_val)]

\* A faulty remove, to show what the count depends on: it marks the slot
\* Deleted and counts the tombstone but leaves current_count as it was.
removeRscLocked_KeepsCount(sd, key) ==
    LET pos == findEntry(sd, key, hash(sd, key))
    IN  IF pos = -1 THEN [ret |-> NOT_FOUND, sd |-> sd]
        ELSE [ret |-> OK,
              sd |-> [sd EXCEPT !.hash_table[pos].state = RWLOCK_DELETED,
                                !.deleted_count = @ + 1]]

\* A faulty remove, to show what the probe walks depend on: it leaves the
\* slot Empty instead of Deleted.
removeRscLocked_EmptiesSlot(sd, key) ==
    LET pos == findEntry(sd, key, hash(sd, key))
    IN  IF pos = -1 THEN [ret |-> NOT_FOUND, sd |-> sd]
        ELSE [ret |-> OK,
              sd |-> [sd EXCEPT !.hash_table[pos].state = RWLOCK_EMPTY,
                                !.current_count = @ - 1]]

removeRscLocked(sd, key) ==
    LET pos == findEntry(sd, key, hash(sd, key))
    IN  IF pos = -1 THEN [ret |-> NOT_FOUND, sd |-> sd]
        ELSE [ret |-> OK,
              sd |-> [sd EXCEPT !.hash_table[pos].state = RWLOCK_DELETED,
                                !.current_count = @ - 1,
                                !.deleted_count = @ + 1]]

\* A faulty clear, to show what the slot transitions depend on: it marks the
\* live entries Deleted, as a remove of every key would, instead of
\* emptying the table.
clearRscLocked_LeavesTombstones(sd) ==
    [ret |-> OK,
     sd |-> [sd EXCEPT !.hash_table =
                           [i \in Slots |->
                               [sd.hash_table[i] EXCEPT !.state =
                                   IF @ = RWLOCK_EMPTY THEN RWLOCK_EMPTY
                                   ELSE RWLOCK_DELETED]],
                       !.current_count = 0,
                       !.deleted_count = 0]]

\* A faulty clear, to show what the stability of the seed depends on: it
\* starts the segment over, seed included.
clearRscLocked_ResetsSeed(sd) ==
    [ret |-> OK,
     sd |-> [sd EXCEPT !.hash_table =
                           [i \in Slots |->
                               [sd.hash_table[i] EXCEPT !.state = RWLOCK_EMPTY]],
                       !.current_count = 0,
                       !.deleted_count = 0,
                       !.hash_seed = <<0, 0>>]]

clearRscLocked(sd) ==
    [ret |-> OK,
     sd |-> [sd EXCEPT !.hash_table =
                           [i \in Slots |->
                               [sd.hash_table[i] EXCEPT !.state = RWLOCK_EMPTY]],
                       !.current_count = 0,
                       !.deleted_count = 0]]

\* A faulty batch_update, to show what its result depends on: it leaves the
\* loop at the first value that is too long instead of going on.
RECURSIVE batchUpdateLoop_StopsAtTooLong(_, _, _, _)
batchUpdateLoop_StopsAtTooLong(sd, updated_map, todo, success_count) ==
    IF todo = {} THEN [ret |-> success_count, sd |-> sd]
    ELSE IF TooLong(updated_map[SetMin(todo)])
    THEN [ret |-> success_count, sd |-> sd]
    ELSE IF findEntry(sd, SetMin(todo), hash(sd, SetMin(todo))) # -1
    THEN batchUpdateLoop_StopsAtTooLong(
             OverwriteAt(sd, findEntry(sd, SetMin(todo), hash(sd, SetMin(todo))),
                         updated_map[SetMin(todo)]),
             updated_map, todo \ {SetMin(todo)}, success_count + 1)
    ELSE batchUpdateLoop_StopsAtTooLong(sd, updated_map, todo \ {SetMin(todo)},
                                        success_count)

\* for (const auto &pair : updated_map): ascending key order
RECURSIVE batchUpdateLoop(_, _, _, _)
batchUpdateLoop(sd, updated_map, todo, success_count) ==
    IF todo = {} THEN [ret |-> success_count, sd |-> sd]
    ELSE LET k    == SetMin(todo)
             rest == todo \ {k}
         IN  IF TooLong(updated_map[k])
             THEN batchUpdateLoop(sd, updated_map, rest, success_count)
             ELSE LET pos == findEntry(sd, k, hash(sd, k))
                  IN  IF pos # -1
                      THEN batchUpdateLoop(OverwriteAt(sd, pos, updated_map[k]),
                                           updated_map, rest, success_count + 1)
                      ELSE batchUpdateLoop(sd, updated_map, rest, success_count)

batchUpdateRscLocked(sd, updated_map) ==
    batchUpdateLoop(sd, updated_map, DOMAIN updated_map, 0)

\* Read operations: the value returned.
getRscLocked(sd, key) ==
    LET pos == findEntry(sd, key, hash(sd, key))
    IN  IF pos = -1 THEN <<>> ELSE CStr(sd.hash_table[pos].value)

isContainLocked(sd, key) == findEntry(sd, key, hash(sd, key)) # -1

\* fetched_map after the call, whatever it held before; the return value is
\* its size.
batchGetRscLocked(sd) == TempData(sd.hash_table)

\* fetched_map[key] = value for the Occupied slots i, i+1, ..., in slot order
RECURSIVE fetchLoop(_, _, _)
fetchLoop(ht, i, fetched_map) ==
    IF i >= RWLOCK_HASH_TABLE_SIZE THEN fetched_map
    ELSE IF ht[i].state = RWLOCK_OCCUPIED
    THEN fetchLoop(ht, i + 1,
                   [k \in DOMAIN fetched_map \cup {ht[i].key} |->
                       IF k = ht[i].key THEN CStr(ht[i].value)
                       ELSE fetched_map[k]])
    ELSE fetchLoop(ht, i + 1, fetched_map)

\* A faulty batch_get, to show what its snapshot depends on: it fills the
\* caller's map without clearing it first.
batchGetRscInto_NoClear(sd, fetched_map) ==
    [ret |-> Cardinality(DOMAIN fetchLoop(sd.hash_table, 0, fetched_map)),
     fetched_map |-> fetchLoop(sd.hash_table, 0, fetched_map)]

\* batchGetRsc called with a map that holds fetched_map: fetched_map.clear(),
\* the fill loop, return fetched_map.size()
batchGetRscInto(sd, fetched_map) ==
    [ret |-> Cardinality(DOMAIN fetchLoop(sd.hash_table, 0, <<>>)),
     fetched_map |-> fetchLoop(sd.hash_table, 0, <<>>)]

rscNumLocked(sd) == sd.current_count

\* static_cast<double>(current_count) / RWLOCK_HASH_TABLE_SIZE, as the
\* fraction <<numerator, denominator>>
getLoadFactorLocked(sd) == <<sd.current_count, RWLOCK_HASH_TABLE_SIZE>>


(***************************************************************************)
(* State                                                                   *)
(***************************************************************************)
\* Model bounds: the processes that use the table, and how many segment
\* instances the name may come to denote over a run (each cleanup followed
\* by a create makes a new one).
NumProcs == 2
MaxSegs == 2

Procs == 1..NumProcs
SegIds == 1..MaxSegs
\* no process / no segment
NoProc == 0
NoSeg == 0

VARIABLES
    shm_name,    \* the segment "/rwlock_optimized_status_memory" names, or NoSeg
    segs,        \* segment instance -> its memory (RWLockOptimizedSharedData)
    pc,          \* process -> where it stands (constructor step, lock state)
    shm_fd,      \* process -> the segment instance its shm_fd_ is open on
    is_creator,  \* process -> is_creator_
    cur,         \* process -> the operation it is inside, with its arguments
    ret,         \* process -> the value its operation is about to return
    \* History, read by the properties only:
    creator_of,  \* segment instance -> the process whose exclusive create made it
    init_writes, \* segment instance -> the <<process, field>> bootstrap writes so far
    ref,         \* segment instance -> its table in the run that performs
                 \* each operation at once, when its lock is acquired
    expect       \* process -> what its operation returns in that run

vars == <<shm_name, segs, pc, shm_fd, is_creator, cur, ret,
          creator_of, init_writes, ref, expect>>

\* pthread_rwlock_t: constructed or not, the writer holding it, the readers
\* holding it.
FreeRWLock(constructed) ==
    [init |-> constructed, writer |-> NoProc, readers |-> {}]

\* A segment instance that does not exist yet, or was just created: the
\* object has size 0 until ftruncate, and ftruncate yields zero bytes.
ZeroSegment ==
    [created |-> FALSE, sized |-> FALSE,
     initialized |-> FALSE,
     current_count |-> 0, deleted_count |-> 0,
     hash_seed |-> <<0, 0>>,
     table_rwlock |-> FreeRWLock(FALSE),
     init_mutex |-> [init |-> FALSE],
     hash_table |-> [i \in Slots |-> EmptyEntry]]

\* The segment as the creator's constructor leaves it
\* (rwlock_optimized_status.cpp:64-101), with the seed it drew.
InitializedSegment(seed) ==
    [ZeroSegment EXCEPT !.created = TRUE, !.sized = TRUE,
                        !.initialized = TRUE,
                        !.hash_seed = seed,
                        !.table_rwlock = FreeRWLock(TRUE),
                        !.init_mutex = [init |-> TRUE]]

\* What the creator writes before it publishes (lines 78-98): the two
\* locks, the two counters, the seed, and each slot of hash_table.
InitFields ==
    ({"table_rwlock", "init_mutex", "current_count", "deleted_count",
      "hash_seed"} \X {0})
    \cup ({"hash_table"} \X Slots)

\* A call of a public operation; the fields an operation does not take are
\* left at key 0, the empty value and the empty map.
Call(op, key, value, updated_map) ==
    [op |-> op, key |-> key, value |-> value, map |-> updated_map]

\* No operation in progress.
Idle == Call("none", 0, <<>>, <<>>)

\* shared_data_ of process p
SD(p) == segs[shm_fd[p]]

(***************************************************************************)
(* pthread_rwlock_wrlock / rdlock / unlock on table_rwlock                 *)
(* (WriteLockGuard and ReadLockGuard, write.cpp:355-378)                   *)
(***************************************************************************)
\* Two faulty locks, to show what the exclusion and the linearizability
\* properties depend on: a write lock granted while readers are inside, and
\* a read lock granted while a writer is inside.
CanWriteLock_IgnoringReaders(sd) ==
    /\ sd.table_rwlock.init
    /\ sd.table_rwlock.writer = NoProc

CanReadLock_IgnoringWriter(sd) == sd.table_rwlock.init

\* A third faulty lock, to show what shared reading depends on: a read
\* lock that, like a mutex, is granted to one holder at a time.
CanReadLock_OneAtATime(sd) ==
    /\ sd.table_rwlock.init
    /\ sd.table_rwlock.writer = NoProc
    /\ sd.table_rwlock.readers = {}

\* pthread_rwlock_wrlock returns: nobody holds the lock
CanWriteLock(sd) ==
    /\ sd.table_rwlock.init
    /\ sd.table_rwlock.writer = NoProc
    /\ sd.table_rwlock.readers = {}

\* pthread_rwlock_rdlock returns: no writer holds the lock
CanReadLock(sd) ==
    /\ sd.table_rwlock.init
    /\ sd.table_rwlock.writer = NoProc

(***************************************************************************)
(* The public operations run by one caller at a time: each action is the   *)
(* whole handler, from the length test through the scoped lock to the      *)
(* return.  The value returned is the ret field of the ...Locked operator. *)
(***************************************************************************)
\* a write handler whose critical section yields r
WriteHandler(p, r) ==
    /\ pc[p] = "ready"
    /\ CanWriteLock(SD(p))
    /\ segs' = [segs EXCEPT ![shm_fd[p]] = r.sd]
    /\ ref' = [ref EXCEPT ![shm_fd[p]] = r.sd]
    /\ UNCHANGED <<shm_name, pc, shm_fd, is_creator, cur, ret,
                   creator_of, init_writes, expect>>

\* a handler that returns before it takes the lock
EarlyReturn(p) ==
    /\ pc[p] = "ready"
    /\ UNCHANGED vars

addRsc(p, rsc_key, rsc_value) ==
    IF TooLong(rsc_value) THEN EarlyReturn(p)
    ELSE WriteHandler(p, addRscLocked(SD(p), rsc_key, rsc_value))

updateRsc(p, rsc_key, rsc_value) ==
    IF TooLong(rsc_value) THEN EarlyReturn(p)
    ELSE WriteHandler(p, updateRscLocked(SD(p), rsc_key, rsc_value))

upsertRsc(p, rsc_key, rsc_value) ==
    IF TooLong(rsc_value) THEN EarlyReturn(p)
    ELSE WriteHandler(p, upsertRscLocked(SD(p), rsc_key, rsc_value))

removeRsc(p, rsc_key) ==
    WriteHandler(p, removeRscLocked(SD(p), rsc_key))

clearRsc(p) ==
    WriteHandler(p, clearRscLocked(SD(p)))

batchUpdateRsc(p, updated_map) ==
    WriteHandler(p, batchUpdateRscLocked(SD(p), updated_map))

\* The maps batch_update is called with: one key with any value, and two
\* keys that collide, each with an empty or a too long value.
UpdateMaps == [{1} -> Values] \cup [{0, 2} -> {<<>>, <<1, 1>>}]

\* The process that runs the sequential specification.
Caller == SetMin(Procs)

Init ==
    /\ shm_name = 1
    /\ \E seed \in Seeds :
          segs = [s \in SegIds |->
                    IF s = 1 THEN InitializedSegment(seed) ELSE ZeroSegment]
    /\ pc = [p \in Procs |-> IF p = Caller THEN "ready" ELSE "start"]
    /\ shm_fd = [p \in Procs |-> IF p = Caller THEN 1 ELSE NoSeg]
    /\ is_creator = [p \in Procs |-> p = Caller]
    /\ cur = [p \in Procs |-> Idle]
    /\ ret = [p \in Procs |-> OK]
    /\ creator_of = [s \in SegIds |-> IF s = 1 THEN Caller ELSE NoProc]
    /\ init_writes = [s \in SegIds |->
                        IF s = 1 THEN {Caller} \X InitFields ELSE {}]
    /\ ref = segs
    /\ expect = [p \in Procs |-> OK]

Next ==
    \/ \E k \in Keys, v \in Values : addRsc(Caller, k, v)
    \/ \E k \in Keys, v \in Values : updateRsc(Caller, k, v)
    \/ \E k \in Keys, v \in Values : upsertRsc(Caller, k, v)
    \/ \E k \in Keys : removeRsc(Caller, k)
    \/ clearRsc(Caller)
    \/ \E m \in UpdateMaps : batchUpdateRsc(Caller, m)

Spec == Init /\ [][Next]_vars

\* The same machine under a second name, for the property that visits every
\* write call on other keys in every state.
SpecFrame == Init /\ [][Next]_vars

(***************************************************************************)
(* The public operations step by step, run by several processes: the guard *)
(* object takes table_rwlock (blocking while it is not available), the     *)
(* critical section runs, and the guard's destructor releases the lock as  *)
(* the operation returns.                                                  *)
(***************************************************************************)
WriteOps ==
    {"addRsc", "updateRsc", "upsertRsc", "removeRsc", "clearRsc",
     "batchUpdateRsc"}
ReadOps ==
    {"getRsc", "isContain", "rscNum", "getLoadFactor", "batchGetRsc",
     "printStats"}

\* printStats: the figures it prints.  probes of an Occupied slot is the
\* number of slots its key's probe walk inspects up to that slot (1 when
\* the walk never arrives).
RECURSIVE ProbesLoop(_, _, _, _)
ProbesLoop(actual_pos, hash2_val, pos, step) ==
    IF step >= RWLOCK_HASH_TABLE_SIZE THEN 1
    ELSE IF pos = actual_pos THEN step + 1
    ELSE ProbesLoop(actual_pos, hash2_val,
                    getNextProbe(pos, step + 1, hash2_val), step + 1)

RECURSIVE SumOver(_, _)
SumOver(f, S) ==
    IF S = {} THEN 0
    ELSE LET x == CHOOSE y \in S : TRUE IN f[x] + SumOver(f, S \ {x})

printStatsLocked(sd) ==
    LET occ == {i \in Slots : sd.hash_table[i].state = RWLOCK_OCCUPIED}
        probes == [i \in occ |->
                     IF i = sd.hash_table[i].hash_value THEN 1
                     ELSE ProbesLoop(i, hash2(sd, sd.hash_table[i].key),
                                     sd.hash_table[i].hash_value, 0)]
        max_probes == IF occ = {} THEN 0
                      ELSE CHOOSE m \in {probes[i] : i \in occ} :
                              \A i \in occ : probes[i] <= m
    IN  [table_size |-> RWLOCK_HASH_TABLE_SIZE,
         current_count |-> sd.current_count,
         deleted_count |-> sd.deleted_count,
         load_factor |-> <<sd.current_count, RWLOCK_HASH_TABLE_SIZE>>,
         hash_seed |-> sd.hash_seed,
         occupied_slots |-> Cardinality(occ),
         total_probes |-> SumOver(probes, occ),
         max_probes |-> max_probes]

\* The length test made before the lock is taken (add, update, upsert).
FailsLengthTest(c) ==
    /\ c.op \in {"addRsc", "updateRsc", "upsertRsc"}
    /\ TooLong(c.value)

\* The critical section of call c run on sd: the value returned and the
\* shared data left.
CriticalSection(sd, c) ==
    CASE c.op = "addRsc" -> addRscLocked(sd, c.key, c.value)
      [] c.op = "updateRsc" -> updateRscLocked(sd, c.key, c.value)
      [] c.op = "upsertRsc" -> upsertRscLocked(sd, c.key, c.value)
      [] c.op = "removeRsc" -> removeRscLocked(sd, c.key)
      [] c.op = "clearRsc" -> clearRscLocked(sd)
      [] c.op = "batchUpdateRsc" -> batchUpdateRscLocked(sd, c.map)
      [] c.op = "getRsc" -> [ret |-> getRscLocked(sd, c.key), sd |-> sd]
      [] c.op = "isContain" -> [ret |-> isContainLocked(sd, c.key), sd |-> sd]
      [] c.op = "rscNum" -> [ret |-> rscNumLocked(sd), sd |-> sd]
      [] c.op = "getLoadFactor" ->
            [ret |-> getLoadFactorLocked(sd), sd |-> sd]
      [] c.op = "batchGetRsc" -> [ret |-> batchGetRscLocked(sd), sd |-> sd]
      [] c.op = "printStats" -> [ret |-> printStatsLocked(sd), sd |-> sd]

\* pthread_rwlock_wrlock / pthread_rwlock_rdlock has returned to p
Locked(sd, p, c) ==
    IF c.op \in WriteOps
    THEN [sd EXCEPT !.table_rwlock.writer = p]
    ELSE [sd EXCEPT !.table_rwlock.readers = @ \cup {p}]

\* A faulty release, to show what the absence of re-acquisition depends
\* on: the guard's destructor leaves the lock held.
Unlocked_KeepsLock(sd, p) == sd

\* pthread_rwlock_unlock by p
Unlocked(sd, p) ==
    IF sd.table_rwlock.writer = p
    THEN [sd EXCEPT !.table_rwlock.writer = NoProc]
    ELSE [sd EXCEPT !.table_rwlock.readers = @ \ {p}]

\* p calls c with a value that fails the length test: it returns
\* NO_SPACE_ERR at once, the lock and the table untouched.
RejectLength(p, c) ==
    /\ pc[p] = "ready"
    /\ FailsLengthTest(c)
    /\ pc' = [pc EXCEPT ![p] = "rejected"]
    /\ cur' = [cur EXCEPT ![p] = c]
    /\ ret' = [ret EXCEPT ![p] = NO_SPACE_ERR]
    /\ UNCHANGED <<shm_name, segs, shm_fd, is_creator, creator_of, init_writes,
                   ref, expect>>

\* The rejected call is back in p's caller, which has the value returned.
ReturnRejected(p) ==
    /\ pc[p] = "rejected"
    /\ pc' = [pc EXCEPT ![p] = "ready"]
    /\ cur' = [cur EXCEPT ![p] = Idle]
    /\ ret' = [ret EXCEPT ![p] = OK]
    /\ UNCHANGED <<shm_name, segs, shm_fd, is_creator, creator_of, init_writes,
                   ref, expect>>

\* p calls c and its guard object obtains the lock.
LockGuard(p, c) ==
    /\ pc[p] = "ready"
    /\ ~FailsLengthTest(c)
    /\ IF c.op \in WriteOps THEN CanWriteLock(SD(p)) ELSE CanReadLock(SD(p))
    /\ segs' = [segs EXCEPT ![shm_fd[p]] = Locked(@, p, c)]
    /\ pc' = [pc EXCEPT ![p] = "locked"]
    /\ cur' = [cur EXCEPT ![p] = c]
    /\ \A r \in {CriticalSection(ref[shm_fd[p]], c)} :
          /\ ref' = [ref EXCEPT ![shm_fd[p]] = r.sd]
          /\ expect' = [expect EXCEPT ![p] = r.ret]
    /\ UNCHANGED <<shm_name, shm_fd, is_creator, ret, creator_of, init_writes>>

\* p runs the critical section of the call it is in.
RunLocked(p) ==
    /\ pc[p] = "locked"
    /\ \A r \in {CriticalSection(SD(p), cur[p])} :
          /\ segs' = [segs EXCEPT ![shm_fd[p]] = r.sd]
          /\ ret' = [ret EXCEPT ![p] = r.ret]
    /\ pc' = [pc EXCEPT ![p] = "done"]
    /\ UNCHANGED <<shm_name, shm_fd, is_creator, cur, creator_of, init_writes,
                   ref, expect>>

\* A faulty return, to show what the release depends on: the call returns
\* and the guard's destructor has not run.
UnlockGuard_KeepsLock(p) ==
    /\ pc[p] = "done"
    /\ pc' = [pc EXCEPT ![p] = "ready"]
    /\ cur' = [cur EXCEPT ![p] = Idle]
    /\ ret' = [ret EXCEPT ![p] = OK]
    /\ expect' = [expect EXCEPT ![p] = OK]
    /\ UNCHANGED <<segs, shm_name, shm_fd, is_creator, creator_of, init_writes,
                   ref>>

\* p's guard object is destroyed and the call returns ret[p].
UnlockGuard(p) ==
    /\ pc[p] = "done"
    /\ segs' = [segs EXCEPT ![shm_fd[p]] = Unlocked(@, p)]
    /\ pc' = [pc EXCEPT ![p] = "ready"]
    /\ cur' = [cur EXCEPT ![p] = Idle]
    /\ ret' = [ret EXCEPT ![p] = OK]
    /\ expect' = [expect EXCEPT ![p] = OK]
    /\ UNCHANGED <<shm_name, shm_fd, is_creator, creator_of, init_writes, ref>>

\* The calls the concurrent processes issue: two keys on one probe walk,
\* a value that passes the length test and one that does not.
ConcKeys == {0, 2}
ConcValues == {<<1>>, <<1, 1>>}
ConcMaps ==
    {[k \in ConcKeys |-> <<>>],
     [k \in ConcKeys |-> IF k = 0 THEN <<1, 1>> ELSE <<>>]}

ConcCalls ==
    {Call(op, k, v, <<>>) :
        op \in {"addRsc", "updateRsc", "upsertRsc"},
        k \in ConcKeys, v \in ConcValues}
    \cup {Call(op, k, <<>>, <<>>) :
            op \in {"removeRsc", "getRsc", "isContain"}, k \in ConcKeys}
    \cup {Call(op, 0, <<>>, <<>>) :
            op \in {"clearRsc", "rscNum", "getLoadFactor", "batchGetRsc",
                    "printStats"}}
    \cup {Call("batchUpdateRsc", 0, <<>>, m) : m \in ConcMaps}

\* Every process is attached to the one initialized segment.
InitConc ==
    /\ shm_name = 1
    /\ \E seed \in Seeds :
          segs = [s \in SegIds |->
                    IF s = 1 THEN InitializedSegment(seed) ELSE ZeroSegment]
    /\ pc = [p \in Procs |-> "ready"]
    /\ shm_fd = [p \in Procs |-> 1]
    /\ is_creator = [p \in Procs |-> p = 1]
    /\ cur = [p \in Procs |-> Idle]
    /\ ret = [p \in Procs |-> OK]
    /\ creator_of = [s \in SegIds |-> IF s = 1 THEN 1 ELSE NoProc]
    /\ init_writes = [s \in SegIds |-> IF s = 1 THEN {1} \X InitFields ELSE {}]
    /\ ref = segs
    /\ expect = [p \in Procs |-> OK]

NextConc ==
    \E p \in Procs :
        \/ \E c \in ConcCalls : LockGuard(p, c)
        \/ RunLocked(p)
        \/ UnlockGuard(p)

SpecConc == InitConc /\ [][NextConc]_vars

\* The same processes with the calls that fail the length test made
\* visible (in SpecConc such a call changes nothing and so is no step),
\* calling the three operations that have the test, remove and get.
RejectCalls ==
    {c \in ConcCalls :
        c.op \in {"addRsc", "updateRsc", "upsertRsc", "removeRsc", "getRsc"}}

NextReject ==
    \E p \in Procs :
        \/ \E c \in RejectCalls : RejectLength(p, c)
        \/ ReturnRejected(p)
        \/ \E c \in RejectCalls : LockGuard(p, c)
        \/ RunLocked(p)
        \/ UnlockGuard(p)

SpecReject == InitConc /\ [][NextReject]_vars

(***************************************************************************)
(* The constructor step by step (rwlock_optimized_status.cpp:21-108), run  *)
(* by processes that start independently, and the static cleanup().        *)
(* Memory is taken to be sequentially consistent and each step to happen   *)
(* in program order.                                                       *)
(***************************************************************************)
\* The steps of the creator's initializer, in program order.
InitSteps ==
    {"init_rwlock", "init_mutex", "init_counts", "init_seed", "init_slots",
     "publish"}

\* A segment instance the name has not denoted yet.
FreshSegs == {s \in SegIds : ~segs[s].created}

\* A faulty branch, to show what single initialization depends on: every
\* process runs the initializer after mapping.
AfterMmap_AlwaysInitializer(creator) == "init_rwlock"

\* if (is_creator_) { initializer } else { wait loop }, line 65
AfterMmap(creator) == IF creator THEN "init_rwlock" ELSE "wait"

\* A faulty wait loop, to show what publication depends on: it is left at
\* once.
WaitIsOver_AtOnce(sd) == TRUE

\* while (!shared_data_->initialized), line 104
WaitIsOver(sd) == sd.initialized

\* the bootstrap write of field f of p's segment, recorded
Wrote(p, f) ==
    init_writes' = [init_writes EXCEPT ![shm_fd[p]] = @ \cup {<<p, f>>}]

\* shm_open(O_RDWR), line 25
OpenExisting(p) ==
    /\ pc[p] = "start"
    /\ IF shm_name # NoSeg
       THEN /\ shm_fd' = [shm_fd EXCEPT ![p] = shm_name]
            /\ pc' = [pc EXCEPT ![p] = "mmap"]
       ELSE /\ pc' = [pc EXCEPT ![p] = "create"]
            /\ UNCHANGED shm_fd
    /\ UNCHANGED <<shm_name, segs, is_creator, cur, ret,
                   creator_of, init_writes, ref, expect>>

\* A faulty create, to show what sharing depends on: without O_EXCL
\* semantics it makes a new object even when the name is bound by now.
CreateExclusive_IgnoresExisting(p) ==
    /\ pc[p] = "create"
    /\ FreshSegs # {}
    /\ \A s \in {SetMin(FreshSegs)} :
          /\ shm_name' = s
          /\ segs' = [segs EXCEPT ![s].created = TRUE]
          /\ shm_fd' = [shm_fd EXCEPT ![p] = s]
          /\ creator_of' = [creator_of EXCEPT ![s] = p]
    /\ is_creator' = [is_creator EXCEPT ![p] = TRUE]
    /\ pc' = [pc EXCEPT ![p] = "ftruncate"]
    /\ UNCHANGED <<cur, ret, init_writes, ref, expect>>

\* shm_open(O_CREAT | O_EXCL | O_RDWR), lines 29-40
CreateExclusive(p) ==
    /\ pc[p] = "create"
    /\ IF shm_name = NoSeg
       THEN /\ FreshSegs # {}
            /\ \A s \in {SetMin(FreshSegs)} :
                  /\ shm_name' = s
                  /\ segs' = [segs EXCEPT ![s].created = TRUE]
                  /\ shm_fd' = [shm_fd EXCEPT ![p] = s]
                  /\ creator_of' = [creator_of EXCEPT ![s] = p]
            /\ is_creator' = [is_creator EXCEPT ![p] = TRUE]
            /\ pc' = [pc EXCEPT ![p] = "ftruncate"]
       ELSE /\ pc' = [pc EXCEPT ![p] = "reopen"]     \* EEXIST
            /\ UNCHANGED <<shm_name, segs, shm_fd, creator_of, is_creator>>
    /\ UNCHANGED <<cur, ret, init_writes, ref, expect>>

\* shm_open(O_RDWR) after EEXIST, lines 31-37
OpenAgain(p) ==
    /\ pc[p] = "reopen"
    /\ IF shm_name # NoSeg
       THEN /\ shm_fd' = [shm_fd EXCEPT ![p] = shm_name]
            /\ pc' = [pc EXCEPT ![p] = "mmap"]
       ELSE /\ pc' = [pc EXCEPT ![p] = "failed"]     \* throw
            /\ UNCHANGED shm_fd
    /\ UNCHANGED <<shm_name, segs, is_creator, cur, ret,
                   creator_of, init_writes, ref, expect>>

\* ftruncate succeeds, line 45: the object gets its size, zero-filled
Ftruncate(p) ==
    /\ pc[p] = "ftruncate"
    /\ segs' = [segs EXCEPT ![shm_fd[p]].sized = TRUE]
    /\ pc' = [pc EXCEPT ![p] = "mmap"]
    /\ UNCHANGED <<shm_name, shm_fd, is_creator, cur, ret,
                   creator_of, init_writes, ref, expect>>

\* ftruncate fails, lines 45-49: close, shm_unlink of the name, throw
FtruncateFails(p) ==
    /\ pc[p] = "ftruncate"
    /\ shm_name' = NoSeg
    /\ shm_fd' = [shm_fd EXCEPT ![p] = NoSeg]
    /\ pc' = [pc EXCEPT ![p] = "failed"]
    /\ UNCHANGED <<segs, is_creator, cur, ret,
                   creator_of, init_writes, ref, expect>>

\* mmap succeeds, lines 53-54
Mmap(p) ==
    /\ pc[p] = "mmap"
    /\ pc' = [pc EXCEPT ![p] = AfterMmap(is_creator[p])]
    /\ UNCHANGED <<shm_name, segs, shm_fd, is_creator, cur, ret,
                   creator_of, init_writes, ref, expect>>

\* mmap fails, lines 56-61: close, shm_unlink by the creator only, throw
MmapFails(p) ==
    /\ pc[p] = "mmap"
    /\ shm_name' = IF is_creator[p] THEN NoSeg ELSE shm_name
    /\ shm_fd' = [shm_fd EXCEPT ![p] = NoSeg]
    /\ pc' = [pc EXCEPT ![p] = "failed"]
    /\ UNCHANGED <<segs, is_creator, cur, ret,
                   creator_of, init_writes, ref, expect>>

\* pthread_rwlock_init(&shared_data_->table_rwlock, ...), line 78
InitRWLock(p) ==
    /\ pc[p] = "init_rwlock"
    /\ segs' = [segs EXCEPT ![shm_fd[p]].table_rwlock = FreeRWLock(TRUE)]
    /\ Wrote(p, <<"table_rwlock", 0>>)
    /\ pc' = [pc EXCEPT ![p] = "init_mutex"]
    /\ UNCHANGED <<shm_name, shm_fd, is_creator, cur, ret,
                   creator_of, ref, expect>>

\* pthread_mutex_init(&shared_data_->init_mutex, ...), line 79
InitMutex(p) ==
    /\ pc[p] = "init_mutex"
    /\ segs' = [segs EXCEPT ![shm_fd[p]].init_mutex = [init |-> TRUE]]
    /\ Wrote(p, <<"init_mutex", 0>>)
    /\ pc' = [pc EXCEPT ![p] = "init_counts"]
    /\ UNCHANGED <<shm_name, shm_fd, is_creator, cur, ret,
                   creator_of, ref, expect>>

\* current_count = 0; deleted_count = 0, lines 85-86
InitCounts(p) ==
    /\ pc[p] = "init_counts"
    /\ segs' = [segs EXCEPT ![shm_fd[p]].current_count = 0,
                            ![shm_fd[p]].deleted_count = 0]
    /\ init_writes' = [init_writes EXCEPT ![shm_fd[p]] =
                         @ \cup {<<p, <<"current_count", 0>>>>,
                                 <<p, <<"deleted_count", 0>>>>}]
    /\ pc' = [pc EXCEPT ![p] = "init_seed"]
    /\ UNCHANGED <<shm_name, shm_fd, is_creator, cur, ret,
                   creator_of, ref, expect>>

\* hash_seed = rd(), lines 89-90
InitSeed(p) ==
    /\ pc[p] = "init_seed"
    /\ \E seed \in Seeds :
          segs' = [segs EXCEPT ![shm_fd[p]].hash_seed = seed]
    /\ Wrote(p, <<"hash_seed", 0>>)
    /\ pc' = [pc EXCEPT ![p] = "init_slots"]
    /\ cur' = [cur EXCEPT ![p] = Call("init_slots", 0, <<>>, <<>>)]
    /\ UNCHANGED <<shm_name, shm_fd, is_creator, ret,
                   creator_of, ref, expect>>

\* One round of the slot loop, lines 93-98; the key field of cur[p] holds
\* the loop index i.  The round that writes the last slot leaves the loop.
InitSlot(p) ==
    /\ pc[p] = "init_slots"
    /\ cur[p].key < RWLOCK_HASH_TABLE_SIZE
    /\ segs' = [segs EXCEPT ![shm_fd[p]].hash_table[cur[p].key] =
                   [@ EXCEPT !.state = RWLOCK_EMPTY, !.key = 0,
                             !.value[1] = 0, !.hash_value = 0]]
    /\ Wrote(p, <<"hash_table", cur[p].key>>)
    /\ IF cur[p].key + 1 < RWLOCK_HASH_TABLE_SIZE
       THEN /\ cur' = [cur EXCEPT ![p].key = @ + 1]
            /\ UNCHANGED pc
       ELSE /\ cur' = [cur EXCEPT ![p] = Idle]
            /\ pc' = [pc EXCEPT ![p] = "publish"]
    /\ UNCHANGED <<shm_name, shm_fd, is_creator, ret,
                   creator_of, ref, expect>>

\* shared_data_->initialized = true, line 101; the constructor returns
Publish(p) ==
    /\ pc[p] = "publish"
    /\ segs' = [segs EXCEPT ![shm_fd[p]].initialized = TRUE]
    /\ ref' = [ref EXCEPT ![shm_fd[p]] = segs'[shm_fd[p]]]
    /\ pc' = [pc EXCEPT ![p] = "ready"]
    /\ UNCHANGED <<shm_name, shm_fd, is_creator, cur, ret,
                   creator_of, init_writes, expect>>

\* One test of the wait loop, lines 104-106.  Reading the mapping of an
\* object that has no size yet raises SIGBUS; otherwise the loop is left
\* once the flag reads true, and sleeps and tests again if not.
WaitInitialized(p) ==
    /\ pc[p] = "wait"
    /\ IF ~SD(p).sized THEN pc' = [pc EXCEPT ![p] = "crashed"]
       ELSE IF WaitIsOver(SD(p)) THEN pc' = [pc EXCEPT ![p] = "ready"]
       ELSE UNCHANGED pc
    /\ UNCHANGED <<shm_name, segs, shm_fd, is_creator, cur, ret,
                   creator_of, init_writes, ref, expect>>

\* shm_unlink of the name: it removes the binding, fails with ENOENT when
\* there is none, and fails with another error (EACCES) when the system
\* refuses, which leaves the binding as it is.
shm_unlink(name, refused) ==
    IF refused THEN [ret |-> -1, errno |-> "EACCES", shm_name |-> name]
    ELSE IF name = NoSeg
    THEN [ret |-> -1, errno |-> "ENOENT", shm_name |-> NoSeg]
    ELSE [ret |-> 0, errno |-> "", shm_name |-> NoSeg]

\* A faulty cleanup, to show what its result depends on: every failure of
\* shm_unlink is reported, a missing name too.
cleanupCall_ReportsMissing(name, refused) ==
    [ret |-> IF shm_unlink(name, refused).ret = -1 THEN -1 ELSE OK,
     shm_name |-> shm_unlink(name, refused).shm_name]

\* cleanup(), lines 460-467: the value returned and the binding left
cleanupCall(name, refused) ==
    [ret |-> IF shm_unlink(name, refused).ret = -1
             THEN (IF shm_unlink(name, refused).errno # "ENOENT"
                   THEN -1 ELSE OK)
             ELSE OK,
     shm_name |-> shm_unlink(name, refused).shm_name]

\* A faulty cleanup, to show what the view of an attached process depends
\* on: the unlink destroys the object together with its name.
cleanup_DestroysSegment ==
    /\ shm_name' = cleanupCall(shm_name, FALSE).shm_name
    /\ segs' = [s \in SegIds |-> IF s = shm_name THEN ZeroSegment ELSE segs[s]]
    /\ UNCHANGED <<pc, shm_fd, is_creator, cur, ret,
                   creator_of, init_writes, ref, expect>>

\* static cleanup(), lines 460-467: shm_unlink of the name, by anyone at
\* any time; ENOENT counts as success.
cleanup ==
    /\ shm_name' = cleanupCall(shm_name, FALSE).shm_name
    /\ UNCHANGED <<segs, pc, shm_fd, is_creator, cur, ret,
                   creator_of, init_writes, ref, expect>>

\* The calls issued once the constructor has returned.
BootCalls ==
    {Call("addRsc", 0, <<1>>, <<>>), Call("removeRsc", 0, <<>>, <<>>),
     Call("getRsc", 0, <<>>, <<>>), Call("rscNum", 0, <<>>, <<>>)}

\* No segment exists and no process has started.
InitBoot ==
    /\ shm_name = NoSeg
    /\ segs = [s \in SegIds |-> ZeroSegment]
    /\ pc = [p \in Procs |-> "start"]
    /\ shm_fd = [p \in Procs |-> NoSeg]
    /\ is_creator = [p \in Procs |-> FALSE]
    /\ cur = [p \in Procs |-> Idle]
    /\ ret = [p \in Procs |-> OK]
    /\ creator_of = [s \in SegIds |-> NoProc]
    /\ init_writes = [s \in SegIds |-> {}]
    /\ ref = segs
    /\ expect = [p \in Procs |-> OK]

NextBoot ==
    \/ \E p \in Procs :
          \/ OpenExisting(p)
          \/ CreateExclusive(p)
          \/ OpenAgain(p)
          \/ Ftruncate(p)
          \/ FtruncateFails(p)
          \/ Mmap(p)
          \/ MmapFails(p)
          \/ InitRWLock(p)
          \/ InitMutex(p)
          \/ InitCounts(p)
          \/ InitSeed(p)
          \/ InitSlot(p)
          \/ Publish(p)
          \/ WaitInitialized(p)
          \/ \E c \in BootCalls : LockGuard(p, c)
          \/ RunLocked(p)
          \/ UnlockGuard(p)
    \/ cleanup

SpecBoot == InitBoot /\ [][NextBoot]_vars

\* Processes that start independently as above, add two keys that share a
\* probe walk, read them back and remove one.
ShareCalls ==
    {Call("addRsc", 0, <<1>>, <<>>), Call("addRsc", 2, <<1>>, <<>>),
     Call("getRsc", 0, <<>>, <<>>), Call("getRsc", 2, <<>>, <<>>),
     Call("removeRsc", 0, <<>>, <<>>)}

\* A step of p's constructor.
ConstructorStep(p) ==
    \/ OpenExisting(p)
    \/ CreateExclusive(p)
    \/ OpenAgain(p)
    \/ Ftruncate(p)
    \/ FtruncateFails(p)
    \/ Mmap(p)
    \/ MmapFails(p)
    \/ InitRWLock(p)
    \/ InitMutex(p)
    \/ InitCounts(p)
    \/ InitSeed(p)
    \/ InitSlot(p)
    \/ Publish(p)
    \/ WaitInitialized(p)

NextShare ==
    \/ \E p \in Procs :
          \/ ConstructorStep(p)
          \/ \E c \in ShareCalls : LockGuard(p, c)
          \/ RunLocked(p)
          \/ UnlockGuard(p)
    \/ cleanup

SpecShare == InitBoot /\ [][NextShare]_vars


\* The constructors alone, each process scheduled fairly: a process whose
\* constructor can take a step that changes something takes one in the
\* end.  A round of the wait loop that finds the flag false changes
\* nothing, so a process may go round it for ever.
\* Processes that bootstrap and then call the operations that write the
\* segment, on the one segment the name denotes (no cleanup).
SeedCalls ==
    {Call("addRsc", k, <<1>>, <<>>) : k \in Keys}
    \cup {Call(op, 0, <<1>>, <<>>) : op \in {"updateRsc", "upsertRsc"}}
    \cup {Call(op, 0, <<>>, <<>>) : op \in {"removeRsc", "clearRsc"}}
    \cup {Call("batchUpdateRsc", 0, <<>>, (0 :> <<1>>))}

NextSeed ==
    \E p \in Procs :
        \/ ConstructorStep(p)
        \/ \E c \in SeedCalls : LockGuard(p, c)
        \/ RunLocked(p)
        \/ UnlockGuard(p)

SpecSeed == InitBoot /\ [][NextSeed]_vars

NextBootFair == \E p \in Procs : ConstructorStep(p)

SpecBootFair ==
    /\ InitBoot
    /\ [][NextBootFair]_vars
    /\ \A p \in Procs : WF_vars(ConstructorStep(p))

\* The number of slots findEntry inspects: the rounds of its for loop that
\* are entered (lines 123-137).
RECURSIVE findEntrySteps(_, _, _, _, _)
findEntrySteps(ht, key, hash2_val, pos, step) ==
    IF step >= RWLOCK_HASH_TABLE_SIZE THEN step
    ELSE IF ht[pos].state = RWLOCK_EMPTY THEN step + 1
    ELSE IF ht[pos].state = RWLOCK_OCCUPIED /\ ht[pos].key = key THEN step + 1
    ELSE findEntrySteps(ht, key, hash2_val,
                        getNextProbe(pos, step + 1, hash2_val), step + 1)

\* The number of slots findEmptySlot inspects (lines 146-161).
RECURSIVE findEmptySlotSteps(_, _, _, _, _)
findEmptySlotSteps(ht, key, hash2_val, pos, step) ==
    IF step >= RWLOCK_HASH_TABLE_SIZE THEN step
    ELSE IF ht[pos].state = RWLOCK_EMPTY THEN step + 1
    ELSE IF ht[pos].state = RWLOCK_OCCUPIED /\ ht[pos].key = key THEN step + 1
    ELSE findEmptySlotSteps(ht, key, hash2_val,
                            getNextProbe(pos, step + 1, hash2_val), step + 1)

\* Processes that fill the table, so that a probe walk meets no Empty slot,
\* each lock holder scheduled fairly: a process inside its critical section
\* goes on to its end, and a process at its end releases the lock.  Whether
\* a process calls again is left open.  The calls are writers and one
\* reader, all with a status code or a count for result.
FairCalls ==
    {Call("addRsc", k, <<1>>, <<>>) : k \in Keys}
    \cup {Call("updateRsc", 0, <<0>>, <<>>)}
    \cup {Call("removeRsc", k, <<>>, <<>>) : k \in {0, 1}}
    \cup {Call("rscNum", 0, <<>>, <<>>)}

\* RunLocked as pc shows it.  RunLocked(p) has no guard but pc[p] = "locked"
\* and is the only step that takes p to "done", so the two are enabled in
\* the same states and are the same steps of NextFair.
RunToEnd(p) ==
    /\ pc[p] = "locked"
    /\ pc' = [pc EXCEPT ![p] = "done"]

NextFair ==
    \E p \in Procs :
        \/ \E c \in FairCalls : LockGuard(p, c)
        \/ RunLocked(p)
        \/ UnlockGuard(p)

SpecFair ==
    /\ InitConc
    /\ [][NextFair]_vars
    /\ \A p \in Procs : WF_pc(RunToEnd(p)) /\ WF_pc(UnlockGuard(p))

(***************************************************************************)
(* The mutex backend, OptimizedStatusRscManager (unnamed/part_005, header  *)
(* in unnamed/part_007:155-276).  Its segment has the same layout with a   *)
(* process-shared recursive table_mutex in place of table_rwlock; hash,    *)
(* hash2 and getNextProbe (part_007:248-276) are the same text as the      *)
(* RW-lock backend's, and so are the slot writes (OccupiedEntry, InsertAt, *)
(* OverwriteAt) and the snapshot loop (TempData).  The control flow of     *)
(* each function is translated here from part_005.                         *)
(***************************************************************************)
HASH_TABLE_SIZE == 4
MAX_ENTRIES == (HASH_TABLE_SIZE * LOAD_NUM) \div LOAD_DEN
EMPTY == 0
OCCUPIED == 1
DELETED == 2

RECURSIVE findEntryMutexLoop(_, _, _, _, _)
findEntryMutexLoop(ht, key, hash2_val, pos, step) ==
    IF step >= HASH_TABLE_SIZE THEN -1
    ELSE IF ht[pos].state = EMPTY THEN -1
    ELSE IF ht[pos].state = OCCUPIED /\ ht[pos].key = key THEN pos
    ELSE findEntryMutexLoop(ht, key, hash2_val,
                            getNextProbe(pos, step + 1, hash2_val), step + 1)

findEntryMutex(sd, key, hash_val) ==
    findEntryMutexLoop(sd.hash_table, key, hash2(sd, key), hash_val, 0)

RECURSIVE findEmptySlotMutexLoop(_, _, _, _, _, _)
findEmptySlotMutexLoop(ht, key, hash2_val, pos, step, first_deleted) ==
    IF step >= HASH_TABLE_SIZE THEN first_deleted
    ELSE IF ht[pos].state = EMPTY
         THEN (IF first_deleted # -1 THEN first_deleted ELSE pos)
    ELSE LET fd == IF ht[pos].state = DELETED /\ first_deleted = -1
                   THEN pos ELSE first_deleted
         IN  IF ht[pos].state = OCCUPIED /\ ht[pos].key = key THEN -1
             ELSE findEmptySlotMutexLoop(ht, key, hash2_val,
                                         getNextProbe(pos, step + 1, hash2_val),
                                         step + 1, fd)

findEmptySlotMutex(sd, key, hash_val) ==
    findEmptySlotMutexLoop(sd.hash_table, key, hash2(sd, key), hash_val, 0, -1)

\* static_cast<int>(HASH_TABLE_SIZE * MAX_LOAD_FACTOR) is MAX_ENTRIES
needRehashMutex(sd) == sd.current_count + sd.deleted_count > MAX_ENTRIES

RECURSIVE rehashMutexLoop(_, _, _)
rehashMutexLoop(sd, temp_data, todo) ==
    IF todo = {} THEN [ret |-> OK, sd |-> sd]
    ELSE LET k        == SetMin(todo)
             hash_val == hash(sd, k)
             pos      == findEmptySlotMutex(sd, k, hash_val)
         IN  IF pos = -1 THEN [ret |-> NO_SPACE_ERR, sd |-> sd]
             ELSE rehashMutexLoop(
                    [sd EXCEPT !.hash_table[pos] =
                                   OccupiedEntry(k, temp_data[k], hash_val),
                               !.current_count = @ + 1],
                    temp_data, todo \ {k})

rehashIfNeededMutex(sd) ==
    IF ~needRehashMutex(sd) THEN [ret |-> OK, sd |-> sd]
    ELSE LET temp_data == TempData(sd.hash_table)
             cleared   ==
                 [sd EXCEPT !.hash_table =
                                [i \in Slots |->
                                    [sd.hash_table[i] EXCEPT !.state = EMPTY]],
                            !.current_count = 0,
                            !.deleted_count = 0]
         IN  rehashMutexLoop(cleared, temp_data, DOMAIN temp_data)

\* addRsc finds no slot for the key (pos == -1, line 225): it unlocks the
\* mutex and only then reads current_count to choose its return value.
addRscMutexFindsNoSlot(sd, key) ==
    \A r \in {rehashIfNeededMutex(sd)} :
        /\ r.ret = OK
        /\ findEmptySlotMutex(r.sd, key, hash(r.sd, key)) = -1

\* line 227, evaluated on the shared data as it is when the line runs
addRscMutexReturn(sd) ==
    IF sd.current_count >= MAX_ENTRIES THEN NO_SPACE_ERR ELSE DUPLICATE_KEY

\* What each public function does between pthread_mutex_lock and
\* pthread_mutex_unlock.  For addRsc on the path of line 225 the value
\* given is the one line 227 yields when no other process runs in between.
addRscMutexLocked(sd, key, value) ==
    LET r == rehashIfNeededMutex(sd)
    IN  IF r.ret # OK THEN [ret |-> NO_SPACE_ERR, sd |-> r.sd]
        ELSE LET hash_val == hash(r.sd, key)
                 pos      == findEmptySlotMutex(r.sd, key, hash_val)
             IN  IF pos = -1
                 THEN [ret |-> addRscMutexReturn(r.sd), sd |-> r.sd]
                 ELSE [ret |-> OK,
                       sd |-> InsertAt(r.sd, pos, key, value, hash_val)]

updateRscMutexLocked(sd, key, value) ==
    LET pos == findEntryMutex(sd, key, hash(sd, key))
    IN  IF pos = -1 THEN [ret |-> NOT_FOUND, sd |-> sd]
        ELSE [ret |-> OK, sd |-> OverwriteAt(sd, pos, value)]

upsertRscMutexLocked(sd, key, value) ==
    LET hash_val == hash(sd, key)
        pos      == findEntryMutex(sd, key, hash_val)
    IN  IF pos # -1 THEN [ret |-> OK, sd |-> OverwriteAt(sd, pos, value)]
        ELSE LET r == rehashIfNeededMutex(sd)
             IN  IF r.ret # OK THEN [ret |-> NO_SPACE_ERR, sd |-> r.sd]
                 ELSE LET pos2 == findEmptySlotMutex(r.sd, key, hash_val)
                      IN  IF pos2 = -1
                          THEN [ret |-> NO_SPACE_ERR, sd |-> r.sd]
                          ELSE [ret |-> OK,
                                sd |-> InsertAt(r.sd, pos2, key, value, hash_val)]

getRscMutexLocked(sd, key) ==
    LET pos == findEntryMutex(sd, key, hash(sd, key))
    IN  IF pos = -1 THEN <<>> ELSE CStr(sd.hash_table[pos].value)

removeRscMutexLocked(sd, key) ==
    LET pos == findEntryMutex(sd, key, hash(sd, key))
    IN  IF pos = -1 THEN [ret |-> NOT_FOUND, sd |-> sd]
        ELSE [ret |-> OK,
              sd |-> [sd EXCEPT !.hash_table[pos].state = DELETED,
                                !.current_count = @ - 1,
                                !.deleted_count = @ + 1]]

isContainMutexLocked(sd, key) == findEntryMutex(sd, key, hash(sd, key)) # -1

RECURSIVE batchUpdateMutexLoop(_, _, _, _)
batchUpdateMutexLoop(sd, updated_map, todo, success_count) ==
    IF todo = {} THEN [ret |-> success_count, sd |-> sd]
    ELSE LET k    == SetMin(todo)
             rest == todo \ {k}
         IN  IF Len(updated_map[k]) >= MAX_VALUE_LEN
             THEN batchUpdateMutexLoop(sd, updated_map, rest, success_count)
             ELSE LET pos == findEntryMutex(sd, k, hash(sd, k))
                  IN  IF pos # -1
                      THEN batchUpdateMutexLoop(
                               OverwriteAt(sd, pos, updated_map[k]),
                               updated_map, rest, success_count + 1)
                      ELSE batchUpdateMutexLoop(sd, updated_map, rest,
                                                success_count)

\* fetched_map as batchGetRsc leaves it; the function returns its size
batchGetRscMutexLocked(sd) == TempData(sd.hash_table)

clearRscMutexLocked(sd) ==
    [ret |-> OK,
     sd |-> [sd EXCEPT !.hash_table =
                           [i \in Slots |->
                               [sd.hash_table[i] EXCEPT !.state = EMPTY]],
                       !.current_count = 0,
                       !.deleted_count = 0]]

MutexOps ==
    {"addRsc", "updateRsc", "upsertRsc", "removeRsc", "clearRsc",
     "batchUpdateRsc", "getRsc", "isContain", "rscNum", "getLoadFactor",
     "batchGetRsc"}

MutexCriticalSection(sd, c) ==
    CASE c.op = "addRsc" -> addRscMutexLocked(sd, c.key, c.value)
      [] c.op = "updateRsc" -> updateRscMutexLocked(sd, c.key, c.value)
      [] c.op = "upsertRsc" -> upsertRscMutexLocked(sd, c.key, c.value)
      [] c.op = "removeRsc" -> removeRscMutexLocked(sd, c.key)
      [] c.op = "clearRsc" -> clearRscMutexLocked(sd)
      [] c.op = "batchUpdateRsc" ->
            batchUpdateMutexLoop(sd, c.map, DOMAIN c.map, 0)
      [] c.op = "getRsc" -> [ret |-> getRscMutexLocked(sd, c.key), sd |-> sd]
      [] c.op = "isContain" ->
            [ret |-> isContainMutexLocked(sd, c.key), sd |-> sd]
      [] c.op = "rscNum" -> [ret |-> sd.current_count, sd |-> sd]
      [] c.op = "getLoadFactor" ->
            [ret |-> <<sd.current_count, HASH_TABLE_SIZE>>, sd |-> sd]
      [] c.op = "batchGetRsc" ->
            [ret |-> batchGetRscMutexLocked(sd), sd |-> sd]

\* A faulty length test, to show what the equivalence of the backends
\* depends on: the mutex backend lets every value through.
MutexFailsLengthTest_Never(c) == FALSE

\* rsc_value.length() >= MAX_VALUE_LEN, lines 210, 247 and 270
MutexFailsLengthTest(c) ==
    /\ c.op \in {"addRsc", "updateRsc", "upsertRsc"}
    /\ Len(c.value) >= MAX_VALUE_LEN

\* A whole call of the mutex backend, run with no other process between
\* its steps.
MutexCall(sd, c) ==
    IF MutexFailsLengthTest(c) THEN [ret |-> NO_SPACE_ERR, sd |-> sd]
    ELSE MutexCriticalSection(sd, c)

\* A whole call of the RW-lock backend, run the same way.
RWLockCall(sd, c) ==
    IF FailsLengthTest(c) THEN [ret |-> NO_SPACE_ERR, sd |-> sd]
    ELSE CriticalSection(sd, c)

\* The segment as the mutex backend's creator leaves it (part_005:65-95),
\* with the seed it drew.
InitializedMutexSegment(seed) ==
    [created |-> TRUE, sized |-> TRUE,
     initialized |-> TRUE,
     current_count |-> 0, deleted_count |-> 0,
     hash_seed |-> seed,
     table_mutex |-> [init |-> TRUE, owner |-> NoProc],
     init_mutex |-> [init |-> TRUE],
     hash_table |-> [i \in Slots |-> EmptyEntry]]

(***************************************************************************)
(* The two backends side by side: one caller applies each call to a mutex  *)
(* backend segment (segs) and to an RW-lock backend segment (ref) that     *)
(* start from the same seed.                                               *)
(***************************************************************************)
\* a value, a value that holds only the terminator, and one too long
PairValues == {<<1>>, <<0>>, <<1, 1>>}
PairCalls ==
    {Call(op, k, v, <<>>) :
        op \in {"addRsc", "updateRsc", "upsertRsc"},
        k \in Keys, v \in PairValues}
    \cup {Call(op, k, <<>>, <<>>) :
            op \in {"removeRsc", "getRsc", "isContain"}, k \in Keys}
    \cup {Call(op, 0, <<>>, <<>>) :
            op \in {"clearRsc", "rscNum", "getLoadFactor", "batchGetRsc"}}
    \cup {Call("batchUpdateRsc", 0, <<>>, m) : m \in UpdateMaps}

InitPair ==
    /\ shm_name = 1
    /\ \E seed \in Seeds :
          /\ segs = [s \in SegIds |->
                       IF s = 1 THEN InitializedMutexSegment(seed)
                       ELSE ZeroSegment]
          /\ ref = [s \in SegIds |->
                       IF s = 1 THEN InitializedSegment(seed) ELSE ZeroSegment]
    /\ pc = [p \in Procs |-> IF p = Caller THEN "ready" ELSE "start"]
    /\ shm_fd = [p \in Procs |-> IF p = Caller THEN 1 ELSE NoSeg]
    /\ is_creator = [p \in Procs |-> p = Caller]
    /\ cur = [p \in Procs |-> Idle]
    /\ ret = [p \in Procs |-> OK]
    /\ creator_of = [s \in SegIds |-> IF s = 1 THEN Caller ELSE NoProc]
    /\ init_writes = [s \in SegIds |->
                        IF s = 1 THEN {Caller} \X InitFields ELSE {}]
    /\ expect = [p \in Procs |-> OK]

\* the same call made on each backend, each from lock to unlock
BothBackends(c) ==
    /\ pc[Caller] = "ready"
    /\ segs[1].table_mutex.owner = NoProc
    /\ CanWriteLock(ref[1])
    /\ segs' = [segs EXCEPT ![1] = MutexCall(@, c).sd]
    /\ ref' = [ref EXCEPT ![1] = RWLockCall(@, c).sd]
    /\ UNCHANGED <<shm_name, pc, shm_fd, is_creator, cur, ret,
                   creator_of, init_writes, expect>>

NextPair == \E c \in PairCalls : BothBackends(c)

SpecPair == InitPair /\ [][NextPair]_vars

(***************************************************************************)
(* The mutex backend under concurrency.  A call is pthread_mutex_lock, the *)
(* critical section, pthread_mutex_unlock; addRsc on its no-slot path      *)
(* reads current_count after the unlock; and an allocation made while the  *)
(* mutex is held may throw, which leaves the function at once.             *)
(***************************************************************************)
\* The function allocates while it holds the mutex: the std::map nodes and
\* strings of rehashIfNeeded (lines 173-180) and of batchGetRsc (line 391),
\* the std::string result of getRsc (line 327).
MutexMayThrow(sd, c) ==
    \/ /\ c.op = "getRsc"
       /\ findEntryMutex(sd, c.key, hash(sd, c.key)) # -1
    \/ /\ c.op = "batchGetRsc"
       /\ \E i \in Slots : sd.hash_table[i].state = OCCUPIED
    \/ /\ c.op = "addRsc"
       /\ needRehashMutex(sd)
       /\ \E i \in Slots : sd.hash_table[i].state = OCCUPIED
    \/ /\ c.op = "upsertRsc"
       /\ findEntryMutex(sd, c.key, hash(sd, c.key)) = -1
       /\ needRehashMutex(sd)
       /\ \E i \in Slots : sd.hash_table[i].state = OCCUPIED

\* The values the RW-lock backend may return for the call q is in, once the
\* calls that overlap it have brought the RW-lock backend's table to sd: a
\* call that has passed its critical section without a write (pc
\* "unlocked") may as well take effect now, if it writes nothing now.
Admissible(q, sd) ==
    IF pc[q] = "unlocked" /\ RWLockCall(sd, cur[q]).sd = sd
    THEN expect[q] \cup {RWLockCall(sd, cur[q]).ret}
    ELSE expect[q]

\* pthread_mutex_lock(&shared_data_->table_mutex) has returned to p.  The
\* RW-lock backend makes the same call on ref, in the order in which the
\* mutex is obtained, and expect[p] holds what it returns.
MutexLock(p, c) ==
    /\ pc[p] = "ready"
    /\ ~MutexFailsLengthTest(c)
    /\ SD(p).table_mutex.owner = NoProc
    /\ segs' = [segs EXCEPT ![shm_fd[p]].table_mutex.owner = p]
    /\ pc' = [pc EXCEPT ![p] = "locked"]
    /\ cur' = [cur EXCEPT ![p] = c]
    /\ \A r \in {RWLockCall(ref[shm_fd[p]], c)} :
          /\ ref' = [ref EXCEPT ![shm_fd[p]] = r.sd]
          /\ expect' = [q \in Procs |->
                           IF q = p THEN {r.ret} ELSE Admissible(q, r.sd)]
    /\ UNCHANGED <<shm_name, shm_fd, is_creator, ret, creator_of, init_writes>>

\* p runs the critical section of the call it is in; on addRsc's no-slot
\* path the return value is not chosen yet.
MutexRun(p) ==
    /\ pc[p] = "locked"
    /\ IF cur[p].op = "addRsc" /\ addRscMutexFindsNoSlot(SD(p), cur[p].key)
       THEN /\ segs' = [segs EXCEPT ![shm_fd[p]] = rehashIfNeededMutex(@).sd]
            /\ pc' = [pc EXCEPT ![p] = "noslot"]
            /\ ret' = ret
       ELSE /\ \A r \in {MutexCriticalSection(SD(p), cur[p])} :
                  /\ segs' = [segs EXCEPT ![shm_fd[p]] = r.sd]
                  /\ ret' = [ret EXCEPT ![p] = r.ret]
            /\ pc' = [pc EXCEPT ![p] = "done"]
    /\ UNCHANGED <<shm_name, shm_fd, is_creator, cur, creator_of, init_writes,
                   ref, expect>>

\* An allocation in the critical section throws std::bad_alloc: the
\* exception leaves the function, which has no handler and no guard
\* object, and its pthread_mutex_unlock is never reached.
MutexThrow(p) ==
    /\ pc[p] = "locked"
    /\ MutexMayThrow(SD(p), cur[p])
    /\ pc' = [pc EXCEPT ![p] = "thrown"]
    /\ UNCHANGED <<shm_name, segs, shm_fd, is_creator, cur, ret, creator_of,
                   init_writes, ref, expect>>

\* pthread_mutex_unlock by p; the call returns ret[p], except on addRsc's
\* no-slot path, where line 227 is still to run.
MutexUnlock(p) ==
    /\ pc[p] \in {"done", "noslot"}
    /\ segs' = [segs EXCEPT ![shm_fd[p]].table_mutex.owner = NoProc]
    /\ IF pc[p] = "noslot"
       THEN /\ pc' = [pc EXCEPT ![p] = "unlocked"]
            /\ UNCHANGED <<cur, ret>>
            /\ expect' = expect
       ELSE /\ pc' = [pc EXCEPT ![p] = "ready"]
            /\ cur' = [cur EXCEPT ![p] = Idle]
            /\ ret' = [ret EXCEPT ![p] = OK]
            /\ expect' = [expect EXCEPT ![p] = {}]
    /\ UNCHANGED <<shm_name, shm_fd, is_creator, creator_of, init_writes, ref>>

\* line 227: p reads current_count, the mutex released
ReadCountUnlocked(p) ==
    /\ pc[p] = "unlocked"
    /\ ret' = [ret EXCEPT ![p] = addRscMutexReturn(SD(p))]
    /\ pc' = [pc EXCEPT ![p] = "returning"]
    /\ UNCHANGED <<shm_name, segs, shm_fd, is_creator, cur, creator_of,
                   init_writes, ref, expect>>

\* addRsc is back in p's caller, which has the value returned.
MutexReturn(p) ==
    /\ pc[p] = "returning"
    /\ pc' = [pc EXCEPT ![p] = "ready"]
    /\ cur' = [cur EXCEPT ![p] = Idle]
    /\ ret' = [ret EXCEPT ![p] = OK]
    /\ expect' = [expect EXCEPT ![p] = {}]
    /\ UNCHANGED <<shm_name, segs, shm_fd, is_creator, creator_of, init_writes,
                   ref>>

\* The calls the processes make on the mutex backend: adds of three keys,
\* which fill the table to MAX_ENTRIES, a remove and three reads.
MutexKeys == {0, 2, 6}
MutexCalls ==
    {Call("addRsc", k, <<1>>, <<>>) : k \in MutexKeys}
    \cup {Call(op, 0, <<>>, <<>>) :
            op \in {"removeRsc", "getRsc", "batchGetRsc", "rscNum"}}

\* Every process is attached to the one initialized segment.
InitMutexConc ==
    /\ shm_name = 1
    /\ \E seed \in Seeds :
          /\ segs = [s \in SegIds |->
                       IF s = 1 THEN InitializedMutexSegment(seed)
                       ELSE ZeroSegment]
          /\ ref = [s \in SegIds |->
                       IF s = 1 THEN InitializedSegment(seed) ELSE ZeroSegment]
    /\ pc = [p \in Procs |-> "ready"]
    /\ shm_fd = [p \in Procs |-> 1]
    /\ is_creator = [p \in Procs |-> p = 1]
    /\ cur = [p \in Procs |-> Idle]
    /\ ret = [p \in Procs |-> OK]
    /\ creator_of = [s \in SegIds |-> IF s = 1 THEN 1 ELSE NoProc]
    /\ init_writes = [s \in SegIds |-> IF s = 1 THEN {1} \X InitFields ELSE {}]
    /\ expect = [p \in Procs |-> {}]

NextMutex ==
    \E p \in Procs :
        \/ \E c \in MutexCalls : MutexLock(p, c)
        \/ MutexRun(p)
        \/ MutexThrow(p)
        \/ MutexUnlock(p)
        \/ ReadCountUnlocked(p)
        \/ MutexReturn(p)

SpecMutex == InitMutexConc /\ [][NextMutex]_vars

(***************************************************************************)
(* Vocabulary of the properties                                            *)
(***************************************************************************)
\* The segment the sequential caller works on.
Shared == SD(Caller)

\* The values that pass the length test.
ValidValues == {v \in Values : ~TooLong(v)}

\* The whole call, length test included: its return value and the shared
\* data it leaves.
AddCall(sd, k, v) ==
    IF TooLong(v) THEN [ret |-> NO_SPACE_ERR, sd |-> sd]
    ELSE addRscLocked(sd, k, v)
UpdateCall(sd, k, v) ==
    IF TooLong(v) THEN [ret |-> NO_SPACE_ERR, sd |-> sd]
    ELSE updateRscLocked(sd, k, v)
UpsertCall(sd, k, v) ==
    IF TooLong(v) THEN [ret |-> NO_SPACE_ERR, sd |-> sd]
    ELSE upsertRscLocked(sd, k, v)

NoWriter(sd) == sd.table_rwlock.writer = NoProc

OccupiedSlots(sd) == {i \in Slots : sd.hash_table[i].state = RWLOCK_OCCUPIED}
DeletedSlots(sd) == {i \in Slots : sd.hash_table[i].state = RWLOCK_DELETED}
IsPresent(sd, k) == \E i \in OccupiedSlots(sd) : sd.hash_table[i].key = k

\* The slot the probe walk of key k inspects at step s: the walk starts at
\* hash(k) and moves on with getNextProbe(pos, step + 1, hash2(k)), as
\* findEntry and findEmptySlot do.
RECURSIVE ProbePos(_, _, _)
ProbePos(sd, k, s) ==
    IF s = 0 THEN hash(sd, k)
    ELSE getNextProbe(ProbePos(sd, k, s - 1), s, hash2(sd, k))

\* The same walk from any first slot with any step: position s of
\* pos = hash_val; pos = getNextProbe(pos, step + 1, hash2_val).
RECURSIVE ProbeWalk(_, _, _)
ProbeWalk(hash_val, hash2_val, s) ==
    IF s = 0 THEN hash_val
    ELSE getNextProbe(ProbeWalk(hash_val, hash2_val, s - 1), s, hash2_val)

\* What get returns for every key.
GetAll(sd) == [k \in Keys |-> getRscLocked(sd, k)]

\* after is the shared data left by a write that names only the keys ks, and
\* before is GetAll of the shared data it started from: every other key reads
\* as before.
OtherKeysKeep(before, after, ks) ==
    \A k \in Keys \ ks : getRscLocked(after, k) = before[k]

\* No add, update, upsert, remove or batch_update applied to sd changes
\* what get returns for a key the call does not name.
WritesKeepOtherKeys(sd) ==
    \A before \in {GetAll(sd)} :
        /\ \A k \in Keys, v \in Values :
              /\ \A r \in {AddCall(sd, k, v)} :
                    OtherKeysKeep(before, r.sd, {k})
              /\ \A r \in {UpdateCall(sd, k, v)} :
                    OtherKeysKeep(before, r.sd, {k})
              /\ \A r \in {UpsertCall(sd, k, v)} :
                    OtherKeysKeep(before, r.sd, {k})
        /\ \A k \in Keys :
              \A r \in {removeRscLocked(sd, k)} :
                  OtherKeysKeep(before, r.sd, {k})
        /\ \A m \in UpdateMaps :
              \A r \in {batchUpdateRscLocked(sd, m)} :
                  OtherKeysKeep(before, r.sd, DOMAIN m)

(***************************************************************************)
(* C1.  In every reachable state of every interleaving, a write operation  *)
(* (add, update, upsert, remove, clear, batch_update) that holds the table *)
(* lock is the only holder: no other writer and no reader (get, contains,  *)
(* count, load_factor, batch_get, stats) is inside a critical section of   *)
(* the same segment, and the lock records that writer and no reader.       *)
(***************************************************************************)
\* The processes between taking and releasing the table lock of segment s.
Holders(s) == {p \in Procs : shm_fd[p] = s /\ pc[p] \in {"locked", "done"}}

C1_WriterExclusive ==
    \A s \in SegIds :
        \A p \in Holders(s) :
            /\ cur[p].op \in WriteOps \cup ReadOps
            /\ cur[p].op \in WriteOps =>
                  /\ Holders(s) = {p}
                  /\ segs[s].table_rwlock.writer = p
                  /\ segs[s].table_rwlock.readers = {}
            /\ cur[p].op \in ReadOps =>
                  /\ segs[s].table_rwlock.writer = NoProc
                  /\ p \in segs[s].table_rwlock.readers

\* A writer is about to clear a table that holds entries while another
\* process is outside, free to call any operation.
C1_Witness ==
    \E p \in Procs, q \in Procs :
        /\ p # q
        /\ pc[p] = "locked" /\ cur[p].op = "clearRsc"
        /\ SD(p).current_count > 0
        /\ pc[q] = "ready" /\ shm_fd[q] = shm_fd[p]

(***************************************************************************)
(* C2.  Under every interleaving of public operations by several           *)
(* processes, each operation returns what it returns in the sequential     *)
(* execution that performs the operations in the order in which they       *)
(* acquired the table lock; and whenever no writer holds the lock the      *)
(* key->value map of the table is the map that execution has reached, so   *)
(* every read sees the state left by the writer released last.             *)
(***************************************************************************)
\* The abstract key->value map of the shared data.
AbsMap(sd) == batchGetRscLocked(sd)

C2_Linearizable ==
    /\ \A p \in Procs : pc[p] = "done" => ret[p] = expect[p]
    /\ \A p \in Procs :
          (pc[p] \in {"ready", "locked", "done"} /\ NoWriter(SD(p))) =>
              /\ AbsMap(SD(p)) = AbsMap(ref[shm_fd[p]])
              /\ rscNumLocked(SD(p)) = rscNumLocked(ref[shm_fd[p]])

\* Two readers inside at once, one of them returning a value that an
\* earlier writer stored.
C2_Witness ==
    \E p \in Procs, q \in Procs :
        /\ p # q
        /\ pc[p] = "done" /\ cur[p].op = "getRsc" /\ ret[p] = <<1>>
        /\ pc[q] = "locked" /\ cur[q].op \in ReadOps

(***************************************************************************)
(* C3.  Under every interleaving of concurrently starting processes, each  *)
(* segment instance is initialized by one process only, the one whose      *)
(* exclusive create succeeded: every bootstrap write of a lock, a counter, *)
(* the seed or a slot is made by that process, an initialized segment has  *)
(* received all of them from it, and every other process takes the         *)
(* non-creator path, on which it writes none of these.                     *)
(***************************************************************************)
\* The processes that have written a bootstrap field of segment s.
Initializers(s) == {w[1] : w \in init_writes[s]}

C3_SingleInitializer ==
    /\ \A s \in SegIds :
          /\ Initializers(s) \subseteq {creator_of[s]} \ {NoProc}
          /\ segs[s].initialized =>
                init_writes[s] = {creator_of[s]} \X InitFields
    /\ \A p \in Procs :
          /\ pc[p] \in InitSteps =>
                is_creator[p] /\ creator_of[shm_fd[p]] = p
          /\ ~is_creator[p] =>
                /\ pc[p] \notin InitSteps
                /\ \A s \in SegIds : p \notin Initializers(s)

\* The creator is inside the slot loop while another process, attached to
\* the same segment, sits in the wait loop.
C3_Witness ==
    \E p \in Procs, q \in Procs :
        /\ p # q
        /\ shm_fd[p] = shm_fd[q] /\ shm_fd[p] # NoSeg
        /\ pc[p] = "init_slots" /\ cur[p].key >= 1
        /\ pc[q] = "wait" /\ ~is_creator[q]

(***************************************************************************)
(* C4.  No process performs a table operation or holds the table lock of   *)
(* a segment whose initialized flag is not set, and the flag is set only   *)
(* by the step that finds both lock objects constructed, live_count and    *)
(* tomb_count zero, hash_seed drawn and every slot state Empty, each of    *)
(* them written by the creator before.                                     *)
(***************************************************************************)
NoUseBeforeInitialized ==
    /\ \A p \in Procs :
          pc[p] \in {"ready", "locked", "done"} => SD(p).initialized
    /\ \A s \in SegIds :
          (segs[s].table_rwlock.writer # NoProc
             \/ segs[s].table_rwlock.readers # {}) => segs[s].initialized

PublishedAfterInit ==
    \A s \in SegIds :
        (~segs[s].initialized /\ segs'[s].initialized) =>
            /\ segs[s].table_rwlock.init
            /\ segs[s].init_mutex.init
            /\ segs[s].current_count = 0
            /\ segs[s].deleted_count = 0
            /\ segs[s].hash_seed \in Seeds
            /\ \A i \in Slots : segs[s].hash_table[i].state = RWLOCK_EMPTY
            /\ init_writes[s] = {creator_of[s]} \X InitFields
            /\ pc[creator_of[s]] = "publish"

C4_InitializedBeforeUse ==
    []NoUseBeforeInitialized /\ [][PublishedAfterInit]_vars

\* A process that came through the wait loop holds the table lock of a
\* segment another process created.
C4_Witness ==
    \E q \in Procs :
        /\ pc[q] = "locked" /\ ~is_creator[q]
        /\ creator_of[shm_fd[q]] # q
        /\ SD(q).initialized

(***************************************************************************)
(* C5 (as stated).  Once add(k, v) with a value shorter than VALUE_CAP     *)
(* returns OK, get(k) returns exactly v, and keeps returning it through    *)
(* every operation on other keys.                                          *)
(***************************************************************************)
C5_AddThenGetExact ==
    \A k \in Keys, v \in ValidValues :
        \A r \in {AddCall(Shared, k, v)} :
            r.ret = OK =>
              /\ getRscLocked(r.sd, k) = v
              /\ WritesKeepOtherKeys(r.sd)

(***************************************************************************)
(* C5 (amended).  Once add(k, v) with a value shorter than VALUE_CAP       *)
(* returns OK, get(k) returns the bytes of v before its first NUL byte     *)
(* (v itself when v holds no NUL), and in every reachable state no add,    *)
(* update, upsert, remove or batch_update that names only other keys       *)
(* changes what get(k) returns, rehash-in-place included.                  *)
(***************************************************************************)
C5_AddThenGet ==
    /\ \A k \in Keys, v \in ValidValues :
          \A r \in {AddCall(Shared, k, v)} :
              r.ret = OK => getRscLocked(r.sd, k) = CStr(v)
    /\ \A sd \in {Shared} : WritesKeepOtherKeys(sd)

\* A key was added with a non-empty value behind a tombstone, the table is due
\* for rehash, and the add of another key (which rehashes) leaves its value.
C5_Witness ==
    \E k \in Keys, k2 \in Keys :
        /\ k # k2
        /\ IsPresent(Shared, k) /\ ~IsPresent(Shared, k2)
        /\ getRscLocked(Shared, k) = <<1>>
        /\ ProbePos(Shared, k, 0) \in DeletedSlots(Shared)
        /\ needRehash(Shared)
        /\ AddCall(Shared, k2, <<1>>).ret = OK
        /\ getRscLocked(AddCall(Shared, k2, <<1>>).sd, k) = <<1>>

(***************************************************************************)
(* C6.  In every reachable table state, add(k, v2) on a key that is        *)
(* Occupied returns DUPLICATE, never OK or NO_SPACE, and get(k) still      *)
(* returns the value stored before.                                        *)
(***************************************************************************)
C6_AddOccupiedIsDuplicate ==
    \A k \in Keys, v2 \in ValidValues :
        IsPresent(Shared, k) =>
            LET r == AddCall(Shared, k, v2)
            IN  /\ r.ret = DUPLICATE_KEY
                /\ getRscLocked(r.sd, k) = getRscLocked(Shared, k)

(***************************************************************************)
(* C7.  Starting from an empty table, adds of pairwise distinct keys with  *)
(* valid values return OK for the first MAX_LIVE keys, and the             *)
(* (MAX_LIVE+1)-th add returns NO_SPACE.                                   *)
(***************************************************************************)
IsEmptyTable(sd) ==
    /\ sd.current_count = 0
    /\ sd.deleted_count = 0
    /\ \A i \in Slots : sd.hash_table[i].state = RWLOCK_EMPTY

\* The return values of adding ks[1], ks[2], ... in turn, each with value v.
RECURSIVE AddAll(_, _, _, _)
AddAll(sd, ks, v, i) ==
    IF i > Len(ks) THEN <<>>
    ELSE LET r == AddCall(sd, ks[i], v)
         IN  <<r.ret>> \o AddAll(r.sd, ks, v, i + 1)

\* The sequences of MAX_LIVE + 1 pairwise distinct keys.
DistinctKeySeqs ==
    {ks \in [1..(RWLOCK_MAX_ENTRIES + 1) -> Keys] :
        \A i, j \in DOMAIN ks : i # j => ks[i] # ks[j]}

C7_FillThenNoSpace ==
    IsEmptyTable(Shared) =>
        \A ks \in DistinctKeySeqs, v \in ValidValues :
            LET rs == AddAll(Shared, ks, v, 1)
            IN  /\ \A i \in 1..RWLOCK_MAX_ENTRIES : rs[i] = OK
                /\ rs[RWLOCK_MAX_ENTRIES + 1] = NO_SPACE_ERR

(***************************************************************************)
(* C8.  Whenever no writer holds the table lock,                           *)
(* 0 <= live_count <= MAX_LIVE and 0 <= live_count + tomb_count <= CAPACITY*)
(***************************************************************************)
C8_CountBounds ==
    NoWriter(Shared) =>
        /\ 0 <= Shared.current_count
        /\ Shared.current_count <= RWLOCK_MAX_ENTRIES
        /\ 0 <= Shared.current_count + Shared.deleted_count
        /\ Shared.current_count + Shared.deleted_count <= RWLOCK_HASH_TABLE_SIZE

(***************************************************************************)
(* C9.  Whenever no writer holds the table lock, live_count is the number  *)
(* of Occupied slots and tomb_count the number of Tombstone slots, so      *)
(* count() returns the number of Occupied slots.                           *)
(***************************************************************************)
C9_CountsMatchSlots ==
    NoWriter(Shared) =>
        /\ Shared.current_count = Cardinality(OccupiedSlots(Shared))
        /\ Shared.deleted_count = Cardinality(DeletedSlots(Shared))
        /\ rscNumLocked(Shared) = Cardinality(OccupiedSlots(Shared))

\* Live entries and tombstones side by side, one tombstone reused by an insert.
C9_Witness ==
    /\ NoWriter(Shared)
    /\ Cardinality(OccupiedSlots(Shared)) >= 2
    /\ Cardinality(DeletedSlots(Shared)) >= 1
    /\ \E k \in Keys :
          /\ ~IsPresent(Shared, k)
          /\ findEmptySlot(Shared, k, hash(Shared, k)) \in DeletedSlots(Shared)

(***************************************************************************)
(* C10.  Whenever no writer holds the table lock, no two Occupied slots    *)
(* hold the same key, and for every Occupied slot i the probe walk of its  *)
(* key reaches i without visiting an Empty slot first.                     *)
(***************************************************************************)
C10_UniqueAndReachable ==
    NoWriter(Shared) =>
        /\ \A i, j \in OccupiedSlots(Shared) :
              Shared.hash_table[i].key = Shared.hash_table[j].key => i = j
        /\ \A i \in OccupiedSlots(Shared) :
              \E s \in 0..(RWLOCK_HASH_TABLE_SIZE - 1) :
                  /\ ProbePos(Shared, Shared.hash_table[i].key, s) = i
                  /\ \A u \in 0..(s - 1) :
                        Shared.hash_table[
                            ProbePos(Shared, Shared.hash_table[i].key, u)
                        ].state # RWLOCK_EMPTY

\* An entry two or more steps down its probe walk, behind a tombstone.
C10_Witness ==
    /\ NoWriter(Shared)
    /\ \E i \in OccupiedSlots(Shared) :
          LET k == Shared.hash_table[i].key
          IN  /\ ProbePos(Shared, k, 0) # i
              /\ ProbePos(Shared, k, 1) # i
              /\ ProbePos(Shared, k, 0) \in DeletedSlots(Shared)

(***************************************************************************)
(* C11.  Accumulated tombstones never make an insert fail: in every state  *)
(* reached by any sequence of add, remove and the other writes, of any     *)
(* length, add of an absent key with a valid value returns OK whenever     *)
(* live_count < MAX_LIVE, and the key is then present.                     *)
(***************************************************************************)
C11_TombstonesNeverBlockAdd ==
    \A k \in Keys, v \in ValidValues :
        (~IsPresent(Shared, k) /\ Shared.current_count < RWLOCK_MAX_ENTRIES) =>
            \A r \in {AddCall(Shared, k, v)} :
                /\ r.ret = OK
                /\ IsPresent(r.sd, k)
                /\ r.sd.current_count = Shared.current_count + 1

\* No slot is Empty, tombstones outnumber live entries, the table is due for
\* rehash, and an absent key is added.
C11_Witness ==
    /\ \A i \in Slots : Shared.hash_table[i].state # RWLOCK_EMPTY
    /\ Shared.deleted_count >= 2
    /\ Shared.current_count >= 1
    /\ Shared.current_count < RWLOCK_MAX_ENTRIES
    /\ needRehash(Shared)
    /\ \E k \in Keys :
          /\ ~IsPresent(Shared, k)
          /\ AddCall(Shared, k, <<1>>).ret = OK
          /\ AddCall(Shared, k, <<1>>).sd.deleted_count = 0

(***************************************************************************)
(* C12.  For every key k that is present, remove(k) returns OK and an      *)
(* immediately following remove(k) returns NOT_FOUND and changes nothing;  *)
(* after the first remove contains(k) is false and get(k) is empty,        *)
(* count() is one less, and no other key's value has changed.              *)
(***************************************************************************)
C12_RemoveThenNotFound ==
    \A k \in Keys :
        IsPresent(Shared, k) =>
            \A r \in {removeRscLocked(Shared, k)} :
                /\ r.ret = OK
                /\ ~isContainLocked(r.sd, k)
                /\ getRscLocked(r.sd, k) = <<>>
                /\ rscNumLocked(r.sd) = rscNumLocked(Shared) - 1
                /\ OtherKeysKeep(GetAll(Shared), r.sd, {k})
                /\ \A k2 \in Keys \ {k} :
                      isContainLocked(r.sd, k2) = isContainLocked(Shared, k2)
                /\ \A r2 \in {removeRscLocked(r.sd, k)} :
                      /\ r2.ret = NOT_FOUND
                      /\ r2.sd = r.sd

\* The key removed sits at the head of the probe walk of another live key,
\* whose value is still read behind the new tombstone.
C12_Witness ==
    \E k \in Keys, k2 \in Keys :
        /\ k # k2
        /\ IsPresent(Shared, k) /\ IsPresent(Shared, k2)
        /\ Shared.hash_table[ProbePos(Shared, k2, 0)].state = RWLOCK_OCCUPIED
        /\ Shared.hash_table[ProbePos(Shared, k2, 0)].key = k
        /\ getRscLocked(Shared, k2) = <<1>>
        /\ removeRscLocked(Shared, k).ret = OK
        /\ getRscLocked(removeRscLocked(Shared, k).sd, k2) = <<1>>

(***************************************************************************)
(* C13 (as stated).  Whenever upsert(k, v) returns OK, the next get(k)     *)
(* returns v, whether k was absent, present or tombstoned before; if k     *)
(* was present count() is unchanged, otherwise it grows by exactly one.    *)
(***************************************************************************)
C13_UpsertThenGetExact ==
    \A k \in Keys, v \in Values :
        \A r \in {UpsertCall(Shared, k, v)} :
            r.ret = OK =>
                /\ getRscLocked(r.sd, k) = v
                /\ rscNumLocked(r.sd) =
                      rscNumLocked(Shared) + (IF IsPresent(Shared, k) THEN 0 ELSE 1)

(***************************************************************************)
(* C13 (amended).  Whenever upsert(k, v) returns OK, the next get(k)       *)
(* returns the bytes of v before its first NUL byte (v itself when v holds *)
(* no NUL), whether k was absent, present or tombstoned before; if k was   *)
(* present count() is unchanged, otherwise it grows by exactly one.        *)
(***************************************************************************)
C13_UpsertThenGet ==
    \A k \in Keys, v \in Values :
        \A r \in {UpsertCall(Shared, k, v)} :
            r.ret = OK =>
                /\ getRscLocked(r.sd, k) = CStr(v)
                /\ isContainLocked(r.sd, k)
                /\ rscNumLocked(r.sd) =
                      rscNumLocked(Shared) + (IF IsPresent(Shared, k) THEN 0 ELSE 1)

\* The key was removed and its tombstone is still in place; upsert brings it
\* back with a new value.  Another key is present with a value that upsert
\* replaces.
C13_Witness ==
    \E k \in Keys, k2 \in Keys :
        /\ k # k2
        /\ ~IsPresent(Shared, k)
        /\ \E i \in DeletedSlots(Shared) : Shared.hash_table[i].key = k
        /\ UpsertCall(Shared, k, <<1>>).ret = OK
        /\ getRscLocked(UpsertCall(Shared, k, <<1>>).sd, k) = <<1>>
        /\ getRscLocked(Shared, k2) = <<1>>
        /\ UpsertCall(Shared, k2, <<>>).ret = OK
        /\ getRscLocked(UpsertCall(Shared, k2, <<>>).sd, k2) = <<>>
        /\ isContainLocked(UpsertCall(Shared, k2, <<>>).sd, k2)

(***************************************************************************)
(* C14.  update(k, v) with a valid value returns NOT_FOUND and changes     *)
(* nothing when k is absent (tombstoned included); when k is present it    *)
(* returns OK, replaces the value of k's slot and nothing else: every slot *)
(* state, key and hash, live_count, tomb_count, the seed and every other   *)
(* slot's value stay as they were (no insert, no rehash).                  *)
(***************************************************************************)
C14_UpdateFrame ==
    \A k \in Keys, v \in ValidValues :
        \A r \in {UpdateCall(Shared, k, v)} :
            IF ~IsPresent(Shared, k)
            THEN r.ret = NOT_FOUND /\ r.sd = Shared
            ELSE /\ r.ret = OK
                 /\ getRscLocked(r.sd, k) = CStr(v)
                 /\ r.sd.current_count = Shared.current_count
                 /\ r.sd.deleted_count = Shared.deleted_count
                 /\ r.sd.hash_seed = Shared.hash_seed
                 /\ \A i \in Slots :
                       /\ r.sd.hash_table[i].state = Shared.hash_table[i].state
                       /\ r.sd.hash_table[i].key = Shared.hash_table[i].key
                       /\ r.sd.hash_table[i].hash_value =
                             Shared.hash_table[i].hash_value
                       /\ (r.sd.hash_table[i].value # Shared.hash_table[i].value)
                             => (/\ Shared.hash_table[i].state = RWLOCK_OCCUPIED
                                 /\ Shared.hash_table[i].key = k)

\* One key is tombstoned and the table is due for rehash (update of it finds
\* nothing and does not rehash); another is present and gets a new value.
C14_Witness ==
    \E k \in Keys, k2 \in Keys :
        /\ k # k2
        /\ ~IsPresent(Shared, k)
        /\ \E i \in DeletedSlots(Shared) : Shared.hash_table[i].key = k
        /\ needRehash(Shared)
        /\ UpdateCall(Shared, k, <<1>>).ret = NOT_FOUND
        /\ getRscLocked(Shared, k2) = <<>> /\ IsPresent(Shared, k2)
        /\ UpdateCall(Shared, k2, <<1>>).ret = OK
        /\ getRscLocked(UpdateCall(Shared, k2, <<1>>).sd, k2) = <<1>>

(***************************************************************************)
(* C15.  In every reachable state contains(k) is true if and only if some  *)
(* slot is Occupied with key k, also when the value stored is the empty    *)
(* string, for which get(k) returns the same empty result as it does for   *)
(* a key that is missing.                                                  *)
(***************************************************************************)
C15_ContainsIffOccupied ==
    \A k \in Keys :
        /\ isContainLocked(Shared, k) = IsPresent(Shared, k)
        /\ ~IsPresent(Shared, k) => getRscLocked(Shared, k) = <<>>
        /\ \A i \in OccupiedSlots(Shared) :
              (Shared.hash_table[i].key = k /\ Shared.hash_table[i].value[1] = 0)
                  => (isContainLocked(Shared, k) /\ getRscLocked(Shared, k) = <<>>)

\* A key stored with the empty value behind a tombstone, and the key of that
\* tombstone: get is empty for both, contains tells them apart.
C15_Witness ==
    \E k \in Keys, k2 \in Keys :
        /\ k # k2
        /\ IsPresent(Shared, k)
        /\ getRscLocked(Shared, k) = <<>> /\ isContainLocked(Shared, k)
        /\ ProbePos(Shared, k, 0) \in DeletedSlots(Shared)
        /\ Shared.hash_table[ProbePos(Shared, k, 0)].key = k2
        /\ ~IsPresent(Shared, k2)
        /\ getRscLocked(Shared, k2) = <<>> /\ ~isContainLocked(Shared, k2)

(***************************************************************************)
(* C16.  batch_get discards whatever out_map held on entry and fills it    *)
(* with exactly the (key, value) pairs of the Occupied slots: no           *)
(* tombstoned key appears, no live key is missing, each value is the one   *)
(* get returns, and the number returned equals count().                    *)
(***************************************************************************)
\* What the caller's map may hold on entry: nothing, a key the model never
\* stores under that value, and two keys of the table.
FetchedMapsOnEntry ==
    {<<>>, [k \in {6} |-> <<1, 1>>], [k \in {0, 1} |-> <<1>>]}

C16_BatchGetIsSnapshot ==
    \A fetched_map \in FetchedMapsOnEntry :
        \A r \in {batchGetRscInto(Shared, fetched_map)} :
            /\ DOMAIN r.fetched_map = {k \in Keys : IsPresent(Shared, k)}
            /\ DOMAIN r.fetched_map =
                  {Shared.hash_table[i].key : i \in OccupiedSlots(Shared)}
            /\ \A k \in DOMAIN r.fetched_map :
                  r.fetched_map[k] = getRscLocked(Shared, k)
            /\ r.ret = rscNumLocked(Shared)
            /\ r.fetched_map = batchGetRscLocked(Shared)

\* Live entries and the tombstone of a removed key; the caller's map comes
\* in holding that removed key and a value no slot holds.
C16_Witness ==
    /\ Cardinality(OccupiedSlots(Shared)) >= 2
    /\ \E i \in DeletedSlots(Shared) :
          /\ Shared.hash_table[i].key = 1
          /\ ~IsPresent(Shared, 1)
    /\ ~IsPresent(Shared, 6)
    /\ 1 \notin DOMAIN batchGetRscInto(Shared, [k \in {0, 1} |-> <<1>>]).fetched_map
    /\ batchGetRscInto(Shared, [k \in {6} |-> <<1, 1>>]).ret = 2

(***************************************************************************)
(* C17.  batch_update returns the number of entries of the input map whose *)
(* key is present and whose value is shorter than MAX_VALUE_LEN, sets      *)
(* exactly those keys to the given values, skips every other entry, never  *)
(* inserts a key, never changes current_count or deleted_count, and never  *)
(* returns an error code or stops before the last entry.                   *)
(***************************************************************************)
\* The entries of updated_map that batch_update is to apply.
BatchHits(sd, updated_map) ==
    {k \in DOMAIN updated_map :
        IsPresent(sd, k) /\ Len(updated_map[k]) < MAX_VALUE_LEN}

\* Everything of the claim but the value a hit key holds afterwards.
BatchUpdateFrame(sd, updated_map, r) ==
    /\ r.ret = Cardinality(BatchHits(sd, updated_map))
    /\ r.ret \notin {NOT_FOUND, NO_SPACE_ERR, DUPLICATE_KEY}
    /\ \A k \in Keys \ BatchHits(sd, updated_map) :
          getRscLocked(r.sd, k) = getRscLocked(sd, k)
    /\ \A k \in Keys : IsPresent(r.sd, k) = IsPresent(sd, k)
    /\ \A i \in Slots :
          /\ r.sd.hash_table[i].state = sd.hash_table[i].state
          /\ r.sd.hash_table[i].key = sd.hash_table[i].key
    /\ r.sd.current_count = sd.current_count
    /\ r.sd.deleted_count = sd.deleted_count
    /\ r.sd.hash_seed = sd.hash_seed

\* As stated: a hit key reads back as the value given.
C17_BatchUpdateExact ==
    \A updated_map \in UpdateMaps :
        \A r \in {batchUpdateRscLocked(Shared, updated_map)} :
            /\ BatchUpdateFrame(Shared, updated_map, r)
            /\ \A k \in BatchHits(Shared, updated_map) :
                  getRscLocked(r.sd, k) = updated_map[k]

\* As the code has it: a hit key reads back as the bytes of the value given
\* that come before its first NUL.
C17_BatchUpdate ==
    \A updated_map \in UpdateMaps :
        \A r \in {batchUpdateRscLocked(Shared, updated_map)} :
            /\ BatchUpdateFrame(Shared, updated_map, r)
            /\ \A k \in BatchHits(Shared, updated_map) :
                  getRscLocked(r.sd, k) = CStr(updated_map[k])

\* Keys 0 and 2 are both live; the map's first entry is too long and its
\* last one is applied.
C17_Witness ==
    /\ IsPresent(Shared, 0)
    /\ IsPresent(Shared, 2)
    /\ getRscLocked(Shared, 2) = <<1>>
    /\ \E updated_map \in UpdateMaps :
          /\ DOMAIN updated_map = {0, 2}
          /\ TooLong(updated_map[0])
          /\ BatchHits(Shared, updated_map) = {2}
          /\ batchUpdateRscLocked(Shared, updated_map).ret = 1
          /\ getRscLocked(batchUpdateRscLocked(Shared, updated_map).sd, 2) = <<>>

(***************************************************************************)
(* C18.  add, update and upsert called with a value of length              *)
(* >= MAX_VALUE_LEN return NO_SPACE_ERR without acquiring the table lock   *)
(* and leave the whole shared state (slots, current_count, deleted_count,  *)
(* hash_seed) unchanged, whatever the key and the table state.             *)
(***************************************************************************)
LengthTested == {"addRsc", "updateRsc", "upsertRsc"}

\* A call turned away has NO_SPACE_ERR as its value and no hold on the lock.
RejectedHoldsNothing ==
    \A p \in Procs :
        pc[p] = "rejected" =>
            /\ cur[p].op \in LengthTested
            /\ Len(cur[p].value) >= MAX_VALUE_LEN
            /\ ret[p] = NO_SPACE_ERR
            /\ SD(p).table_rwlock.writer # p
            /\ p \notin SD(p).table_rwlock.readers

\* No such call is ever inside a critical section.
TooLongNeverLocks ==
    \A p \in Procs :
        (pc[p] \in {"locked", "done"} /\ cur[p].op \in LengthTested) =>
            Len(cur[p].value) < MAX_VALUE_LEN

\* It is turned away whoever holds the lock at that moment.
TooLongNeverWaits ==
    \A p \in Procs, c \in ConcCalls :
        (pc[p] = "ready" /\ c.op \in LengthTested
            /\ Len(c.value) >= MAX_VALUE_LEN) => ENABLED RejectLength(p, c)

\* Entering and leaving it changes no segment.
RejectionChangesNothing ==
    \A p \in Procs :
        (pc[p] # pc'[p] /\ "rejected" \in {pc[p], pc'[p]}) =>
            /\ segs' = segs
            /\ ref' = ref

C18_TooLongRejectedUnlocked ==
    /\ [](RejectedHoldsNothing /\ TooLongNeverLocks /\ TooLongNeverWaits)
    /\ [][RejectionChangesNothing]_vars

\* An upsert is turned away while another process holds the write lock of
\* a table that has a live entry.
C18_Witness ==
    \E p \in Procs, q \in Procs :
        /\ pc[p] = "rejected" /\ cur[p].op = "upsertRsc"
        /\ ret[p] = NO_SPACE_ERR
        /\ pc[q] = "locked" /\ cur[q].op \in WriteOps
        /\ SD(p).table_rwlock.writer = q
        /\ SD(p).current_count > 0

(***************************************************************************)
(* C19 (as stated).  For any two processes A and B that have completed     *)
(* bootstrap, whichever of them created the segment and whenever each      *)
(* started: once A's add(k, v) has returned OK, B's get(k) returns v as    *)
(* long as no write to k intervenes, and concurrent adds of distinct keys  *)
(* by different processes are all retained.                                *)
(***************************************************************************)
\* p's constructor has returned.
Bootstrapped(p) == pc[p] \in {"ready", "locked", "done"}

\* The step in which A's add stores its entry and has OK to return.
AddReturnsOK(A) ==
    /\ pc[A] = "locked" /\ cur[A].op = "addRsc"
    /\ pc'[A] = "done" /\ ret'[A] = OK

\* The table B reads holds A's entry from that step on.
AddSeenBy(A, B) ==
    getRscLocked(segs'[shm_fd[B]], cur[A].key) = cur[A].value

\* What get(k) finds in a segment changes only in the critical section of
\* a write to k by a process attached to that segment, so an add of
\* another key by anyone leaves it alone.
OnlyWritesToKeyChangeIt ==
    \A s \in SegIds, k \in Keys :
        (/\ segs[s].initialized /\ segs'[s].initialized
         /\ getRscLocked(segs'[s], k) # getRscLocked(segs[s], k)) =>
            \E W \in Procs :
                /\ shm_fd[W] = s
                /\ pc[W] = "locked" /\ pc'[W] = "done"
                /\ cur[W].op \in WriteOps /\ cur[W].key = k

\* A get returns what the table of the caller's segment holds.
GetReadsSegment ==
    \A B \in Procs :
        (pc[B] = "locked" /\ cur[B].op = "getRsc" /\ pc'[B] = "done") =>
            ret'[B] = getRscLocked(segs[shm_fd[B]], cur[B].key)

AddSeenByAll ==
    \A A \in Procs, B \in Procs :
        (AddReturnsOK(A) /\ Bootstrapped(B)) => AddSeenBy(A, B)

C19_AddSeenByEveryProcess ==
    [][AddSeenByAll /\ OnlyWritesToKeyChangeIt /\ GetReadsSegment]_vars

(***************************************************************************)
(* C19 (amended).  The same for any two processes A and B that completed   *)
(* bootstrap on the same segment, which they did unless the name was       *)
(* unlinked in between: a segment is created only while the name is        *)
(* unbound, and a process attaches to the segment the name is bound to.    *)
(* The values are free of NUL bytes.                                       *)
(***************************************************************************)
AddSeenBySharers ==
    \A A \in Procs, B \in Procs :
        (AddReturnsOK(A) /\ Bootstrapped(B) /\ shm_fd[B] = shm_fd[A]) =>
            AddSeenBy(A, B)

OneSegmentPerBinding ==
    /\ shm_name' # shm_name =>
          \/ shm_name' = NoSeg
          \/ /\ shm_name = NoSeg
             /\ ~segs[shm_name'].created /\ segs'[shm_name'].created
    /\ \A s \in SegIds :
          (~segs[s].created /\ segs'[s].created) =>
              shm_name = NoSeg /\ shm_name' = s
    /\ \A p \in Procs :
          (shm_fd'[p] # shm_fd[p] /\ shm_fd'[p] # NoSeg) =>
              shm_fd'[p] = shm_name'

C19_AddSeenOnSharedSegment ==
    [][AddSeenBySharers /\ OneSegmentPerBinding
         /\ OnlyWritesToKeyChangeIt /\ GetReadsSegment]_vars

\* A process that came through the wait loop reads, on the creator's
\* segment, a table that holds both keys, each still with its value.
C19_Witness ==
    \E A \in Procs, B \in Procs :
        /\ A # B
        /\ Bootstrapped(A) /\ Bootstrapped(B)
        /\ is_creator[A] /\ ~is_creator[B]
        /\ shm_fd[A] = shm_fd[B] /\ creator_of[shm_fd[B]] = A
        /\ pc[B] = "done" /\ cur[B].op = "getRsc" /\ cur[B].key = 2
        /\ ret[B] = <<1>>
        /\ getRscLocked(SD(B), 0) = <<1>>
        /\ SD(B).current_count = 2

(***************************************************************************)
(* C20.  Read operations do not exclude each other: two or more of get,    *)
(* contains, count, load_factor, batch_get and stats, issued by different  *)
(* processes, hold the table lock at the same time, and a reader is never  *)
(* blocked while only readers hold the lock and no writer is waiting.      *)
(***************************************************************************)
\* The processes inside a read operation on segment s.
ReadersInside(s) == {p \in Holders(s) : cur[p].op \in ReadOps}

C20_ReadersShareLock ==
    \A p \in Procs :
        (pc[p] = "ready" /\ NoWriter(SD(p))) =>
            /\ \A c \in ConcCalls :
                  c.op \in ReadOps => ENABLED LockGuard(p, c)
            /\ SD(p).table_rwlock.readers = ReadersInside(shm_fd[p])

\* Every process is inside a read operation of the same segment, no two in
\* the same one, one of them a get and one a batch_get.
C20_Witness ==
    /\ ReadersInside(1) = Procs
    /\ segs[1].table_rwlock.readers = Procs
    /\ \A p \in Procs, q \in Procs : p # q => cur[p].op # cur[q].op
    /\ \E p \in Procs, q \in Procs :
          /\ cur[p].op = "getRsc" /\ pc[p] = "locked"
          /\ cur[q].op = "batchGetRsc" /\ pc[q] = "done"

C24_ProbeIsLinearInStep ==
    \A k \in Keys, s \in Slots :
        ProbePos(Shared, k, s) =
            (hash(Shared, k) + s * hash2(Shared, k)) % RWLOCK_HASH_TABLE_SIZE

(***************************************************************************)
(* C25.  For every key and every seed, the positions visited by a full     *)
(* probe walk are pairwise distinct, that is the walk visits every slot    *)
(* index exactly once; the step value is always odd and every computed     *)
(* position stays inside the slot array.                                   *)
(***************************************************************************)
\* Seeds beyond the one the segments of the model are created with.
WalkSeeds == Seeds \cup {<<0, 0>>, <<0, 2>>, <<1, 0>>, <<65535, 65535>>}

\* hash and hash2 of every key under each of them, computed once.
WalkHashes ==
    [seed \in WalkSeeds |->
        [k \in Keys |-> <<hashOf(seed, k), hash2Of(seed, k)>>]]

\* The walk of every such seed and key.
WalksAreFull ==
    \A seed \in WalkSeeds, k \in Keys :
        /\ WalkHashes[seed][k][1] \in Slots
        /\ WalkHashes[seed][k][2] \in Slots
        /\ WalkHashes[seed][k][2] % 2 = 1
        /\ \A s \in Slots, t \in Slots :
              /\ ProbeWalk(WalkHashes[seed][k][1], WalkHashes[seed][k][2], s)
                    \in Slots
              /\ s # t =>
                    ProbeWalk(WalkHashes[seed][k][1], WalkHashes[seed][k][2], s)
                  # ProbeWalk(WalkHashes[seed][k][1], WalkHashes[seed][k][2], t)

\* The walks findEntry and findEmptySlot take in the shared table: a key
\* that is present is found where its walk first meets it.
C25_ProbeWalkIsFull ==
    /\ WalksAreFull
    /\ \A k \in Keys :
          /\ hash2(Shared, k) % 2 = 1
          /\ {ProbePos(Shared, k, s) : s \in Slots} = Slots
          /\ ProbePos(Shared, k, 3) =
                ProbeWalk(hash(Shared, k), hash2(Shared, k), 3)
          /\ IsPresent(Shared, k) =>
                \E s \in Slots :
                    /\ findEntry(Shared, k, hash(Shared, k))
                          = ProbePos(Shared, k, s)
                    /\ \A t \in 0 .. s - 1 :
                          Shared.hash_table[ProbePos(Shared, k, t)].key # k
                             \/ Shared.hash_table[ProbePos(Shared, k, t)].state
                                   # RWLOCK_OCCUPIED

\* A key sits in the last slot of its walk, having passed three occupied
\* slots on the way.
C25_Witness ==
    \E k \in Keys :
        /\ IsPresent(Shared, k)
        /\ findEntry(Shared, k, hash(Shared, k)) = ProbePos(Shared, k, 3)
        /\ \A t \in 0 .. 2 :
              Shared.hash_table[ProbePos(Shared, k, t)].state = RWLOCK_OCCUPIED

(***************************************************************************)
(* C26.  When add or upsert inserts an absent key without rehash having    *)
(* run in that call, the entry is written into the first Tombstone on the  *)
(* key's probe path if one precedes the first Empty slot (and              *)
(* deleted_count decreases by one), otherwise into the first Empty slot    *)
(* (deleted_count unchanged); in both cases current_count increases by     *)
(* one, and the search for a duplicate continues past tombstones up to the *)
(* first Empty slot.                                                       *)
(***************************************************************************)
\* The steps of k's walk that meet a slot in the given state.
StepsInState(sd, k, state) ==
    {s \in Slots : sd.hash_table[ProbePos(sd, k, s)].state = state}

\* The tombstones of k's walk that come before its first Empty slot.
TombsBeforeEmpty(sd, k) ==
    {s \in StepsInState(sd, k, RWLOCK_DELETED) :
        s < SetMin(StepsInState(sd, k, RWLOCK_EMPTY))}

\* The slot the claim names for an insert of k.
InsertSlot(sd, k) ==
    IF TombsBeforeEmpty(sd, k) # {}
    THEN ProbePos(sd, k, SetMin(TombsBeforeEmpty(sd, k)))
    ELSE ProbePos(sd, k, SetMin(StepsInState(sd, k, RWLOCK_EMPTY)))

\* r is what an insert of (k, v) into sd has left, pos the slot named.
InsertedAt(sd, k, v, r, pos) ==
    /\ r.ret = OK
    /\ r.sd.hash_table =
          [sd.hash_table EXCEPT ![pos] = OccupiedEntry(k, v, hash(sd, k))]
    /\ r.sd.current_count = sd.current_count + 1
    /\ r.sd.deleted_count =
          sd.deleted_count
            - (IF sd.hash_table[pos].state = RWLOCK_DELETED THEN 1 ELSE 0)

C26_InsertReusesFirstTombstone ==
    \A k \in Keys :
        /\ (/\ ~IsPresent(Shared, k)
            /\ ~needRehash(Shared)
            /\ StepsInState(Shared, k, RWLOCK_EMPTY) # {}) =>
              \A v \in ValidValues, pos \in {InsertSlot(Shared, k)} :
                  /\ InsertedAt(Shared, k, v, AddCall(Shared, k, v), pos)
                  /\ InsertedAt(Shared, k, v, UpsertCall(Shared, k, v), pos)
        /\ (IsPresent(Shared, k) /\ ~needRehash(Shared)) =>
              \A r \in {AddCall(Shared, k, <<1>>)} :
                  /\ r.ret # OK
                  /\ r.sd.hash_table = Shared.hash_table
                  /\ r.sd.current_count = Shared.current_count
                  /\ r.sd.deleted_count = Shared.deleted_count

\* Both cases at once: an absent key whose walk passes an Occupied slot and
\* then a tombstone before its first Empty slot, and a present key that
\* lies behind a tombstone of its walk.
C26_Witness ==
    /\ ~needRehash(Shared)
    /\ \E k \in Keys :
          /\ ~IsPresent(Shared, k)
          /\ StepsInState(Shared, k, RWLOCK_EMPTY) # {}
          /\ TombsBeforeEmpty(Shared, k) # {}
          /\ SetMin(TombsBeforeEmpty(Shared, k)) >= 1
          /\ AddCall(Shared, k, <<1>>).sd.deleted_count
                = Shared.deleted_count - 1
    /\ \E k \in Keys :
          /\ IsPresent(Shared, k)
          /\ \E s \in StepsInState(Shared, k, RWLOCK_DELETED) :
                ProbePos(Shared, k, s + 1)
                    = findEntry(Shared, k, hash(Shared, k))

(***************************************************************************)
(* C27.  Rehash-in-place runs before any insert that would raise           *)
(* current_count + deleted_count above RWLOCK_MAX_ENTRIES, so after every  *)
(* add or upsert completes current_count + deleted_count is at most        *)
(* RWLOCK_MAX_ENTRIES.                                                     *)
(***************************************************************************)
C27_LoadWithinCeiling ==
    /\ Shared.current_count + Shared.deleted_count <= RWLOCK_MAX_ENTRIES
    /\ \A k \in Keys :
          /\ \A r \in {AddCall(Shared, k, <<1>>)} :
                r.sd.current_count + r.sd.deleted_count <= RWLOCK_MAX_ENTRIES
          /\ \A r \in {UpsertCall(Shared, k, <<1>>)} :
                r.sd.current_count + r.sd.deleted_count <= RWLOCK_MAX_ENTRIES

(***************************************************************************)
(* C28.  Whenever the rehash in place is triggered it returns OK, and it   *)
(* preserves the content: the (key, value) pairs and current_count are the *)
(* same before and after, deleted_count becomes 0, no slot is left         *)
(* Deleted, and findEntry finds every key again.                           *)
(***************************************************************************)
FoundAgain(sd, k) ==
    \A pos \in {findEntry(sd, k, hash(sd, k))} :
        /\ pos \in OccupiedSlots(sd)
        /\ sd.hash_table[pos].key = k
        /\ sd.hash_table[pos].hash_value = hash(sd, k)

RehashKeepsContent(sd, r) ==
    /\ r.ret = OK
    /\ TempData(r.sd.hash_table) = TempData(sd.hash_table)
    /\ r.sd.current_count = sd.current_count
    /\ r.sd.current_count = Cardinality(OccupiedSlots(r.sd))
    /\ r.sd.deleted_count = 0
    /\ DeletedSlots(r.sd) = {}
    /\ r.sd.hash_seed = sd.hash_seed
    /\ \A k \in DOMAIN TempData(sd.hash_table) : FoundAgain(r.sd, k)

C28_RehashKeepsContent ==
    needRehash(Shared) => RehashKeepsContent(Shared, rehashIfNeeded(Shared))

\* a rehash that reclaims tombstones and moves a live entry to another slot
C28_Witness ==
    /\ needRehash(Shared)
    /\ DeletedSlots(Shared) # {}
    /\ \E k \in Keys :
          /\ IsPresent(Shared, k)
          /\ findEntry(rehashIfNeeded(Shared).sd, k, hash(Shared, k))
                # findEntry(Shared, k, hash(Shared, k))

(***************************************************************************)
(* C29.  Every change of a slot's state is Empty->Occupied or              *)
(* Deleted->Occupied by an insert (add, upsert), Occupied->Deleted by      *)
(* remove, and Occupied->Empty or Deleted->Empty by the rehash in place or *)
(* by clear only; no operation takes a slot from Empty to Deleted, and     *)
(* update, batch_update and the read operations change no slot state.      *)
(***************************************************************************)
\* the changes of slot state between two tables, as <<before, after>> pairs
StateChanges(sd, sd2) ==
    {<<sd.hash_table[i].state, sd2.hash_table[i].state>> :
        i \in {j \in Slots :
                  sd.hash_table[j].state # sd2.hash_table[j].state}}

ChangedSlots(sd, sd2) ==
    {i \in Slots : sd.hash_table[i].state # sd2.hash_table[i].state}

InsertChanges ==
    {<<RWLOCK_EMPTY, RWLOCK_OCCUPIED>>, <<RWLOCK_DELETED, RWLOCK_OCCUPIED>>}
RemoveChanges == {<<RWLOCK_OCCUPIED, RWLOCK_DELETED>>}
EmptyingChanges ==
    {<<RWLOCK_OCCUPIED, RWLOCK_EMPTY>>, <<RWLOCK_DELETED, RWLOCK_EMPTY>>}

\* an add or upsert: one slot filled when no rehash ran, and with a rehash
\* the slots it emptied besides
InsertChangesOnly(sd, r) ==
    /\ StateChanges(sd, r.sd) \subseteq InsertChanges \cup EmptyingChanges
    /\ ~needRehash(sd) =>
          /\ StateChanges(sd, r.sd) \subseteq InsertChanges
          /\ Cardinality(ChangedSlots(sd, r.sd)) <= 1

ReadCalls ==
    {Call(op, k, <<>>, <<>>) : op \in ReadOps, k \in Keys}

C29_SlotStateChanges ==
    /\ \A k \in Keys :
          /\ InsertChangesOnly(Shared, AddCall(Shared, k, <<1>>))
          /\ InsertChangesOnly(Shared, UpsertCall(Shared, k, <<1>>))
          /\ StateChanges(Shared, removeRscLocked(Shared, k).sd)
                \subseteq RemoveChanges
          /\ StateChanges(Shared, UpdateCall(Shared, k, <<1>>).sd) = {}
    /\ \A m \in UpdateMaps :
          StateChanges(Shared, batchUpdateRscLocked(Shared, m).sd) = {}
    /\ \A c \in ReadCalls :
          StateChanges(Shared, CriticalSection(Shared, c).sd) = {}
    /\ StateChanges(Shared, rehashIfNeeded(Shared).sd)
          \subseteq InsertChanges \cup EmptyingChanges
    /\ StateChanges(Shared, clearRscLocked(Shared).sd) \subseteq EmptyingChanges
    /\ \A i \in Slots :
          clearRscLocked(Shared).sd.hash_table[i].state = RWLOCK_EMPTY

\* a state in which a remove, a tombstone-reusing insert, a rehash and a
\* clear each change some slot's state
C29_Witness ==
    /\ needRehash(Shared)
    /\ <<RWLOCK_DELETED, RWLOCK_EMPTY>>
          \in StateChanges(Shared, rehashIfNeeded(Shared).sd)
    /\ <<RWLOCK_OCCUPIED, RWLOCK_EMPTY>>
          \in StateChanges(Shared, clearRscLocked(Shared).sd)
    /\ \E k \in Keys :
          <<RWLOCK_OCCUPIED, RWLOCK_DELETED>>
              \in StateChanges(Shared, removeRscLocked(Shared, k).sd)
    /\ \E k \in Keys :
          <<RWLOCK_DELETED, RWLOCK_OCCUPIED>>
              \in StateChanges(rehashIfNeeded(Shared).sd,
                               AddCall(Shared, k, <<1>>).sd)
             \cup StateChanges(Shared, AddCall(Shared, k, <<1>>).sd)

(***************************************************************************)
(* C21.  After any public operation returns, with any return code and on   *)
(* every exit path, one where an exception propagates out of the operation *)
(* included, the calling thread no longer holds the table lock; in the     *)
(* RW-lock backend and in the mutex backend.                               *)
(***************************************************************************)
\* p is outside every public operation: it has yet to call one, its call
\* has returned, or an exception has left its call
OutsideCalls(p) == pc[p] \in {"ready", "thrown"}

C21_LockReleasedOnEveryExit ==
    \A p \in Procs :
        OutsideCalls(p) => SD(p).table_mutex.owner # p

(***************************************************************************)
(* C23.  The mutex backend and the RW-lock backend are observationally     *)
(* equivalent: for every sequence of public operations applied to both     *)
(* from the same initial state and seed, each operation returns the same   *)
(* result in both and the resulting slot arrays and counters are equal;    *)
(* the only difference is that concurrent readers serialize in the mutex   *)
(* backend.                                                                *)
(***************************************************************************)
\* Under concurrency: every call of the mutex backend returns a value the
\* RW-lock backend can return for it, the calls taking effect in the order
\* of the critical sections or, for a call that wrote nothing, at any later
\* moment before it returns; and between calls the two tables are equal.
C23_SameResultsAsRWLock ==
    /\ \A p \in Procs :
          pc[p] \in {"done", "returning"} => ret[p] \in expect[p]
    /\ (\A p \in Procs : pc[p] = "ready") =>
          /\ segs[1].hash_table = ref[1].hash_table
          /\ segs[1].current_count = ref[1].current_count
          /\ segs[1].deleted_count = ref[1].deleted_count

\* One call at a time: the two backends return the same results and leave
\* the same slot arrays and counters.
BackendsAgreeInSequence ==
    /\ segs[1].hash_table = ref[1].hash_table
    /\ segs[1].current_count = ref[1].current_count
    /\ segs[1].deleted_count = ref[1].deleted_count
    /\ segs[1].hash_seed = ref[1].hash_seed
    /\ \A c \in PairCalls :
          MutexCall(segs[1], c).ret = RWLockCall(ref[1], c).ret

\* both backends have run the calls up to a table with live entries and
\* tombstones on which the next insert rehashes
BackendsAgreeInSequence_Reached ==
    /\ needRehashMutex(segs[1])
    /\ needRehash(ref[1])
    /\ segs[1].deleted_count > 0
    /\ segs[1].current_count > 1
    /\ \E c \in PairCalls :
          /\ c.op = "addRsc"
          /\ MutexCall(segs[1], c).ret = OK
          /\ MutexCall(segs[1], c).sd.deleted_count = 0

(***************************************************************************)
(* C30.  There are no lock-free paths: in both backends every read or      *)
(* write of the shared counters and of the slot array made by a public     *)
(* operation, count() included, happens while the calling thread holds the *)
(* table lock.                                                             *)
(***************************************************************************)
\* p's next step reads or writes the counters or the slot array
AboutToAccess(p) == pc[p] \in {"locked", "unlocked"}

C30_AccessOnlyUnderLock ==
    \A p \in Procs :
        AboutToAccess(p) => SD(p).table_mutex.owner = p

(***************************************************************************)
(* C32.  A non-creator never reads the initialized flag, or any other byte *)
(* of its mapping, before the creator has sized the segment: under every   *)
(* interleaving of a creating and an attaching process, the attacher's     *)
(* first access to the mapping happens after the creator's truncate step.  *)
(***************************************************************************)
\* p has mapped the segment as a non-creator and its next step reads the
\* initialized flag
AboutToReadFlag(p) == pc[p] = "wait" /\ ~is_creator[p]

C32_AttacherReadsSizedSegment ==
    \A p \in Procs :
        /\ AboutToReadFlag(p) => SD(p).sized
        /\ pc[p] # "crashed"

(***************************************************************************)
(* C33.  Bootstrap always ends: under fair scheduling every process that   *)
(* starts bootstrap eventually either completes it or fails with an        *)
(* initialization error; in particular a non-creator's busy-wait on        *)
(* initialized always terminates, also when the creator's truncate or map  *)
(* step fails.                                                             *)
(***************************************************************************)
C33_BootstrapEnds ==
    \A p \in Procs : (pc[p] = "start") ~> (pc[p] \in {"ready", "failed"})

(***************************************************************************)
(* C34.  In the creator's bootstrap a full memory fence is issued after    *)
(* the last initialization write and before the write initialized = true,  *)
(* and in every non-creator a full memory fence is issued after the wait   *)
(* loop exits and before its first lock acquisition.                       *)
(***************************************************************************)
\* init_writes[s] records what each process did to segment s during its
\* bootstrap, a fence as the event <<p, <<"fence", 0>>>>.  The constructor
\* (lines 65-107) has no fence statement, so no step of it records one.
FenceIssued(p, s) == <<p, <<"fence", 0>>>> \in init_writes[s]

\* p went through the wait loop and is inside its first or a later call
AttacherInCall(p) ==
    /\ ~is_creator[p]
    /\ pc[p] \in {"locked", "done"}

C34_FencesAroundPublication ==
    /\ \A s \in SegIds :
          segs[s].initialized => FenceIssued(creator_of[s], s)
    /\ \A p \in Procs :
          AttacherInCall(p) => FenceIssued(p, shm_fd[p])

(***************************************************************************)
(* C31.  No public operation of the RW-lock variant acquires the table     *)
(* lock while its thread already holds it: no operation calls another      *)
(* locking operation from inside its critical section, and no operation    *)
(* goes from holding the read lock to requesting the write lock.           *)
(***************************************************************************)
HoldsRead(p) == p \in SD(p).table_rwlock.readers
HoldsWrite(p) == SD(p).table_rwlock.writer = p
HoldsLock(p) == HoldsRead(p) \/ HoldsWrite(p)

\* between calls a process holds nothing, and never both kinds at once
HoldsOnlyInsideCall ==
    \A p \in Procs :
        /\ ~(HoldsRead(p) /\ HoldsWrite(p))
        /\ pc[p] = "ready" => ~HoldsLock(p)
        /\ pc[p] \in {"locked", "done"} => HoldsLock(p)

\* a step in which p's guard obtains the lock starts with p holding
\* nothing; the critical section itself requests no lock; and no step takes
\* p from the read lock to the write lock
AcquiresFromNothing ==
    \A p \in Procs :
        /\ (pc[p] # "locked" /\ pc'[p] = "locked") =>
              /\ ~HoldsLock(p)
              /\ pc[p] = "ready"
        /\ (pc[p] = "locked" /\ pc'[p] = "done") =>
              /\ HoldsRead(p)' = HoldsRead(p)
              /\ HoldsWrite(p)' = HoldsWrite(p)
        /\ ~(HoldsRead(p) /\ HoldsWrite(p)')

C31_NoReacquisition == []HoldsOnlyInsideCall /\ [][AcquiresFromNothing]_vars

\* a reader inside its critical section while another process, having
\* released its write lock, is between calls
C31_Witness ==
    \E p \in Procs, q \in Procs :
        /\ p # q
        /\ pc[p] = "locked" /\ HoldsRead(p)
        /\ pc[q] = "ready"
        /\ SD(q).current_count > 0

(***************************************************************************)
(* C35.  Every public operation, once it has acquired the table lock,      *)
(* completes and releases the lock after a bounded number of steps (each   *)
(* probe walk inspects at most RWLOCK_HASH_TABLE_SIZE slots, the rehash    *)
(* re-inserts at most RWLOCK_HASH_TABLE_SIZE entries); so if every lock    *)
(* holder is scheduled fairly, no operation holds the lock forever.        *)
(***************************************************************************)
WalkSteps(sd, k) ==
    findEntrySteps(sd.hash_table, k, hash2(sd, k), hash(sd, k), 0)
InsertWalkSteps(sd, k) ==
    findEmptySlotSteps(sd.hash_table, k, hash2(sd, k), hash(sd, k), 0)

BoundedWork ==
    \A p \in Procs :
        /\ \A k \in Keys :
              /\ WalkSteps(SD(p), k) <= RWLOCK_HASH_TABLE_SIZE
              /\ InsertWalkSteps(SD(p), k) <= RWLOCK_HASH_TABLE_SIZE
              /\ InsertWalkSteps(rehashIfNeeded(SD(p)).sd, k)
                    <= RWLOCK_HASH_TABLE_SIZE
        /\ Cardinality(DOMAIN TempData(SD(p).hash_table))
              <= RWLOCK_HASH_TABLE_SIZE
        /\ printStatsLocked(SD(p)).max_probes <= RWLOCK_HASH_TABLE_SIZE

LockHeldEnds ==
    \A p \in Procs :
        (pc[p] \in {"locked", "done"}) ~> (pc[p] = "ready" /\ ~HoldsLock(p))

C35_LockHeldEnds == []BoundedWork /\ LockHeldEnds

\* an update inside its critical section on a table with no Empty slot,
\* where its walk for the removed key ends only by the bound
C35_Witness ==
    \E p \in Procs :
        /\ pc[p] = "locked"
        /\ cur[p].op = "updateRsc"
        /\ \A i \in Slots : SD(p).hash_table[i].state # RWLOCK_EMPTY
        /\ ~isContainLocked(SD(p), cur[p].key)
        /\ WalkSteps(SD(p), cur[p].key) = RWLOCK_HASH_TABLE_SIZE

(***************************************************************************)
(* C36.  hash_seed is written exactly once, by the creator during          *)
(* bootstrap, and no public operation changes it afterwards: clear,        *)
(* rehash-in-place, add, upsert, update, remove and the batch operations   *)
(* all leave hash_seed unchanged.                                          *)
(***************************************************************************)
SeedField == <<"hash_seed", 0>>

\* the only bootstrap write of the seed is the creator's
SeedWrittenByCreatorOnly ==
    \A s \in SegIds :
        \A w \in init_writes[s] : w[2] = SeedField => w[1] = creator_of[s]

\* a step that changes the seed of a segment is its creator's initializer
\* writing it for the first time
SeedChangesOnlyAtInit ==
    \A s \in SegIds :
        segs'[s].hash_seed # segs[s].hash_seed =>
            \E p \in Procs :
                /\ pc[p] = "init_seed" /\ pc'[p] = "init_slots"
                /\ shm_fd[p] = s /\ is_creator[p]
                /\ \A q \in Procs : <<q, SeedField>> \notin init_writes[s]

\* the seed is not written a second time
SeedWrittenOnce ==
    \A p \in Procs :
        pc[p] = "init_seed" /\ pc'[p] # pc[p] =>
            \A q \in Procs : <<q, SeedField>> \notin init_writes[shm_fd[p]]

C36_SeedWrittenOnce ==
    /\ []SeedWrittenByCreatorOnly
    /\ [][SeedChangesOnlyAtInit /\ SeedWrittenOnce]_vars

\* an add that rehashes in place about to run on a bootstrapped segment
\* that a clear has emptied before
C36_Witness ==
    \E p, q \in Procs :
        /\ shm_fd[p] \in SegIds
        /\ shm_fd[p] = shm_fd[q]
        /\ <<creator_of[shm_fd[p]], SeedField>> \in init_writes[shm_fd[p]]
        /\ SD(p).hash_seed \in Seeds
        /\ pc[p] = "locked" /\ cur[p].op = "addRsc" /\ needRehash(SD(p))
        /\ pc[q] = "ready" /\ ~HoldsLock(q)

(***************************************************************************)
(* C37.  add or upsert of an absent key with a valid value returns         *)
(* NO_SPACE only in states where all RWLOCK_HASH_TABLE_SIZE slots are      *)
(* Occupied; in every state with current_count < RWLOCK_HASH_TABLE_SIZE    *)
(* such a call returns OK.                                                 *)
(***************************************************************************)
AllOccupied(sd) ==
    \A i \in Slots : sd.hash_table[i].state = RWLOCK_OCCUPIED

AbsentKeys(sd) == {k \in Keys : ~isContainLocked(sd, k)}

InsertResults(sd, k, v) ==
    {addRscLocked(sd, k, v).ret, upsertRscLocked(sd, k, v).ret}

SameAnswers(before, after) ==
    /\ \A k \in Keys :
          /\ getRscLocked(after, k) = getRscLocked(before, k)
          /\ isContainLocked(after, k) = isContainLocked(before, k)
    /\ rscNumLocked(after) = rscNumLocked(before)
    /\ batchGetRscLocked(after) = batchGetRscLocked(before)

FailedAdds(sd) ==
    {r \in {addRscLocked(sd, k, v) : k \in Keys, v \in ValidValues} :
        r.ret \in {DUPLICATE_KEY, NO_SPACE_ERR}}

C38_FailedAddKeepsContent ==
    \A r \in FailedAdds(Shared) : SameAnswers(Shared, r.sd)

\* before an add answers DUPLICATE_KEY, and before another answers
\* NO_SPACE_ERR, the rehash has run and dropped the tombstones
C38_Witness ==
    /\ needRehash(Shared)
    /\ Shared.deleted_count > 0
    /\ \E r \in FailedAdds(Shared) :
          /\ r.sd.deleted_count = 0
          /\ r.sd.hash_table # Shared.hash_table
          /\ batchGetRscLocked(r.sd) # <<>>

(***************************************************************************)
(* C39.  Calling cleanup while a process P is attached does not change     *)
(* what P observes, and a process Q that bootstraps after that cleanup     *)
(* takes the creator path on a fresh, empty segment: from then on writes   *)
(* by P are invisible to Q and writes by Q are invisible to P.             *)
(***************************************************************************)
Attached(p) == shm_fd[p] \in SegIds

\* a step that unlinks the name leaves every process that has completed
\* bootstrap on its segment, and the segment as it is
CleanupKeepsView ==
    (shm_name # NoSeg /\ shm_name' = NoSeg) =>
        \A p \in Procs :
            Bootstrapped(p) =>
                /\ shm_fd'[p] = shm_fd[p]
                /\ segs'[shm_fd[p]] = segs[shm_fd[p]]

\* shm_open(O_CREAT | O_EXCL) of an unbound name: the caller is the creator
\* of an object nobody is attached to and nobody has written
CreatesFreshSegment ==
    \A q \in Procs :
        (pc[q] = "create" /\ pc'[q] # "create" /\ shm_name = NoSeg) =>
            /\ is_creator'[q]
            /\ Attached(q)'
            /\ \A p \in Procs : shm_fd[p] # shm_fd'[q]
            /\ segs[shm_fd'[q]] = ZeroSegment
            /\ init_writes[shm_fd'[q]] = {}
            /\ creator_of'[shm_fd'[q]] = q

\* the creator returns from the constructor on an empty table
CreatorStartsEmpty ==
    \A q \in Procs :
        (~Bootstrapped(q) /\ Bootstrapped(q)' /\ is_creator[q]) =>
            /\ SD(q)'.current_count = 0
            /\ \A k \in Keys : ~isContainLocked(SD(q)', k)

\* a step changes a segment only if the process that takes it is attached
\* to that segment
WritesStayOnSegment ==
    \A s \in SegIds :
        segs'[s] # segs[s] =>
            \E p \in Procs :
                /\ shm_fd'[p] = s
                /\ pc'[p] # pc[p] \/ cur'[p] # cur[p]

=============================================================================
